---- MODULE Spec2Model ----
(***************************************************************************)
(* Model of ContentProcessorService                                        *)
(* (src/services/content/content-processor.service.ts): the pipeline       *)
(*   cleanHtml -> turndown -> cleanMarkdown -> extractKeywords,            *)
(*   extractRelatedSections, calculateQualityMetrics -> generateFrontMatter*)
(*                                                                         *)
(* Texts are TLA+ strings, handled character by character with Len, \o and *)
(* SubSeq.  Every regular expression of the source is translated by hand   *)
(* into an operator that computes what the JavaScript regex engine computes*)
(* (leftmost match, greedy/lazy quantifiers, flags).  Scores are exact     *)
(* rationals written as integers in units of 1/ScoreUnit.                  *)
(***************************************************************************)
EXTENDS Integers, Sequences, FiniteSets, TLC

VARIABLES
    pc,               \* position of the call in progress
    html,             \* processContent's html argument
    section,          \* processContent's section argument (HIGSection)
    cleanedHtml,      \* const cleanedHtml
    rawMarkdown,      \* const rawMarkdown
    cleanedMarkdown,  \* const cleanedMarkdown
    keywords,         \* const keywords (sequence of strings)
    relatedSections,  \* const relatedSections (sequence of strings)
    quality,          \* const quality (ContentQualityMetrics)
    frontMatter       \* const frontMatter

vars == <<pc, html, section, cleanedHtml, rawMarkdown, cleanedMarkdown,
          keywords, relatedSections, quality, frontMatter>>

\* the values of the variables that the call in progress has not assigned yet
NoValue == "<none>"
NoList == <<>>
NoQuality == [extractionMethod |-> NoValue]
NoSection == [title |-> NoValue, platform |-> NoValue, category |-> NoValue, url |-> NoValue]

(***************************************************************************)
(* String helpers.                                                         *)
(***************************************************************************)

\* s.charAt(i-1): the i-th character, "" outside the string
Ch(s, i) == IF i >= 1 /\ i <= Len(s) THEN SubSeq(s, i, i) ELSE ""

\* s.substring(i-1): the text from position i on
From(s, i) == SubSeq(s, i, Len(s))

Max(a, b) == IF a >= b THEN a ELSE b
Min(a, b) == IF a <= b THEN a ELSE b

\* the concatenation F(lo) \o ... \o F(hi), by quartering
RECURSIVE Build(_, _, _)
Build(F(_), lo, hi) ==
    IF hi - lo < 3
    THEN (IF lo > hi THEN ""
          ELSE F(lo) \o (IF lo + 1 > hi THEN ""
                         ELSE F(lo + 1) \o (IF lo + 2 > hi THEN "" ELSE F(lo + 2))))
    ELSE LET q == (hi - lo + 1) \div 4
         IN (Build(F, lo, lo + q - 1) \o Build(F, lo + q, lo + 2 * q - 1))
            \o (Build(F, lo + 2 * q, lo + 3 * q - 1) \o Build(F, lo + 3 * q, hi))

\* the least i in lo..hi with P(i), 0 when there is none
FirstIdx(P(_), lo, hi) ==
    IF \E i \in lo..hi : P(i)
    THEN CHOOSE i \in lo..hi : P(i) /\ \A j \in lo..(i - 1) : ~P(j)
    ELSE 0

\* the number of i in lo..hi with P(i)
CountIdx(P(_), lo, hi) == Cardinality({i \in lo..hi : P(i)})

\* the greatest i in lo..hi with P(i), 0 when there is none
LastIdx(P(_), lo, hi) ==
    IF \E i \in lo..hi : P(i)
    THEN CHOOSE i \in lo..hi : P(i) /\ \A j \in (i + 1)..hi : ~P(j)
    ELSE 0

\* F(v) with the argument v computed first and once: a statement applied to
\* the finished result of the statement before it
Pipe(F(_), v) == CHOOSE r \in {F(x) : x \in {v}} : TRUE

\* for (k = lo; k <= hi; k++) st = Step(st, k): the steps are taken in order,
\* by halving, each half finished before the next one starts
RECURSIVE Fold(_, _, _, _)
Fold(Step(_, _), lo, hi, st) ==
    IF lo < hi
    THEN CHOOSE r \in {Fold(Step, (lo + hi) \div 2 + 1, hi, x) :
                           x \in {Fold(Step, lo, (lo + hi) \div 2, st)}} : TRUE
    ELSE IF lo = hi THEN Step(st, lo) ELSE st

\* while (!st.done) st = Step(st), for a loop that takes at most n steps
RECURSIVE Iterate(_, _, _)
Iterate(Step(_), n, st) ==
    IF n <= 0 \/ st.done THEN st
    ELSE IF n = 1 THEN Step(st)
    ELSE CHOOSE r \in {Iterate(Step, n - n \div 2, x) :
                           x \in {Iterate(Step, n \div 2, st)}} : TRUE

UpperStr == "ABCDEFGHIJKLMNOPQRSTUVWXYZ"
LowerStr == "abcdefghijklmnopqrstuvwxyz"
DigitStr == "0123456789"

UpperChars == {SubSeq(UpperStr, i, i) : i \in 1..Len(UpperStr)}
LowerChars == {SubSeq(LowerStr, i, i) : i \in 1..Len(LowerStr)}
DigitChars == {SubSeq(DigitStr, i, i) : i \in 1..Len(DigitStr)}
LetterChars == UpperChars \cup LowerChars
\* regex \w
WordChars == LetterChars \cup DigitChars \cup {"_"}
\* regex \s (the members that occur in the modelled texts)
SpaceChars == {" ", "\t", "\n", "\r", "\f"}
\* regex [ \t]
BlankChars == {" ", "\t"}

LowerOf == [c \in UpperChars |->
              SubSeq(LowerStr, CHOOSE i \in 1..Len(UpperStr) : SubSeq(UpperStr, i, i) = c,
                               CHOOSE i \in 1..Len(UpperStr) : SubSeq(UpperStr, i, i) = c)]

\* String.prototype.toLowerCase
toLowerCase(s) ==
    Build(LAMBDA i : IF Ch(s, i) \in UpperChars THEN LowerOf[Ch(s, i)] ELSE Ch(s, i),
          1, Len(s))

\* p occurs in s at position i
StartsAt(s, p, i) ==
    i >= 1 /\ i + Len(p) - 1 <= Len(s) /\ SubSeq(s, i, i + Len(p) - 1) = p

\* s.indexOf(p, from-1) + 1: the first position >= from where p occurs, else 0
IndexOf(s, p, from) ==
    FirstIdx(LAMBDA i : StartsAt(s, p, i), Max(from, 1), Len(s) - Len(p) + 1)

\* String.prototype.includes
includes(s, p) == IndexOf(s, p, 1) # 0

\* the end (last position) of the run of characters of class C that starts
\* at position i; i - 1 when the character at i is not in C   (regex C*)
RunEnd(s, C, i) ==
    LET stop == FirstIdx(LAMBDA k : Ch(s, k) \notin C, i, Len(s))
    IN IF i > Len(s) THEN Len(s) ELSE IF stop = 0 THEN Len(s) ELSE stop - 1

\* String.prototype.trim
trim(s) ==
    LET a == FirstIdx(LAMBDA k : Ch(s, k) \notin SpaceChars, 1, Len(s))
        b == LastIdx(LAMBDA k : Ch(s, k) \notin SpaceChars, 1, Len(s))
    IN IF a = 0 THEN "" ELSE SubSeq(s, a, b)

\* the characters that the regex dot does not match (no s flag)
LineTerminators == {"\n", "\r"}

\* no line terminator in s[a..b]
SameLine(s, a, b) == FirstIdx(LAMBDA k : Ch(s, k) \in LineTerminators, a, b) = 0

\* position i is the start of a line: regex ^ under the m flag
LineStart(s, i) == i = 1 \/ Ch(s, i - 1) \in LineTerminators

\* position i is just behind the end of a line: regex $ under the m flag
LineEnd(s, i) == i = Len(s) + 1 \/ Ch(s, i) \in LineTerminators

(***************************************************************************)
(* s.replace(re, ...) with the g flag, for a regex that never matches the  *)
(* empty string.  M(s, i) is the length of the match that starts at        *)
(* position i, or -1; R(s, i, n) is the replacement of the match of length *)
(* n at i.  Matches are taken leftmost first and do not overlap.           *)
(***************************************************************************)
ReplaceAll(M(_, _), R(_, _, _), s) ==
    IF s = "" THEN s ELSE
    LET \* st.from: the position behind the last match; st.out: the result up to there
        Step(hits, st) ==
            LET i == FirstIdx(LAMBDA k : k \in hits, st.from, Len(s))
            IN IF i = 0
               THEN [from |-> Len(s) + 1, out |-> st.out \o From(s, st.from), done |-> TRUE]
               ELSE [from |-> i + M(s, i),
                     out |-> st.out \o SubSeq(s, st.from, i - 1) \o R(s, i, M(s, i)),
                     done |-> FALSE]
        \* hits: the positions where the regex matches
        From1(hits) ==
            IF hits = {} THEN s
            ELSE Iterate(LAMBDA st : Step(hits, st), Cardinality(hits) + 1,
                         [from |-> 1, out |-> "", done |-> FALSE]).out
    IN Pipe(From1, {i \in 1..Len(s) : M(s, i) >= 1})

\* s.replace(re, ...) without the g flag: the leftmost match only
ReplaceFirst(M(_, _), R(_, _, _), s) ==
    LET i == FirstIdx(LAMBDA k : M(s, k) >= 1, 1, Len(s))
    IN IF i = 0 THEN s
       ELSE SubSeq(s, 1, i - 1) \o R(s, i, M(s, i)) \o From(s, i + M(s, i))

\* (s.match(re) || []).length with the g flag
CountAll(M(_, _), s) ==
    LET Step(hits, st) ==
            LET i == FirstIdx(LAMBDA k : k \in hits, st.from, Len(s))
            IN IF i = 0 THEN [st EXCEPT !.done = TRUE]
               ELSE [from |-> i + M(s, i), n |-> st.n + 1, done |-> FALSE]
        From1(hits) ==
            Iterate(LAMBDA st : Step(hits, st), Cardinality(hits) + 1,
                    [from |-> 1, n |-> 0, done |-> FALSE]).n
    IN Pipe(From1, {i \in 1..Len(s) : M(s, i) >= 1})

Erase(s, i, n) == ""

\* s.match(re) with the g flag: null when the regex matches nowhere, else the
\* array of the matches (kept as their number)
match(M(_, _), s) ==
    LET n == CountAll(M, s) IN [isNull |-> n = 0, length |-> n]

\* a faulty variant of OrEmpty: the fallback to an empty array left out
Unguarded(m) == m

\* m || [] : an empty array in the place of null
OrEmpty(m) == IF m.isNull THEN [m EXCEPT !.isNull = FALSE] ELSE m

\* The grave accent (the Markdown code mark).  The module's strings cannot hold
\* that character, so the texts of the model write it as "@", a character that
\* no regex of the source mentions and that the texts do not use otherwise.
CodeMark == "@"
\* the fence option of the converter: three code marks
Fence == CodeMark \o CodeMark \o CodeMark

\* the elements of a sequence of strings
Range(seq) == {seq[i] : i \in 1..Len(seq)}

(***************************************************************************)
(* The vocabularies of the service (readonly fields).                      *)
(***************************************************************************)
appleDesignTerms ==
    <<"accessibility", "animation", "branding", "buttons", "color", "controls",
      "design", "feedback", "gestures", "haptics", "icons", "images", "input",
      "interface", "layout", "materials", "motion", "navigation", "presentation",
      "selection", "status", "system", "typography", "visual", "widgets",
      "human interface guidelines", "user experience", "user interface",
      "touch target", "dynamic type", "voiceover", "dark mode", "light mode">>

fallbackIndicators ==
    <<"this page requires javascript", "please turn on javascript",
      "javascript is required", "single page application",
      "content not available", "loading...", "page not found",
      "skip navigation", "refresh the page to view">>

appleSPAIndicators ==
    <<"skip navigation", "current page is", "supported platforms", "change log",
      "platform considerations", "additional considerations for",
      "no additional considerations for">>

(***************************************************************************)
(* cleanHtml                                                               *)
(***************************************************************************)

\* the regex \b behind a word character at position i - 1
WordEndsBefore(s, i) == Ch(s, i) \notin WordChars

\* /<script\b[^<]*(?:(?!<\/script>)<[^<]*)*<\/script>/gi and the same for
\* style: from the opening tag through the first closing tag behind it
RawTextElementAt(sl, tag, i) ==
    LET open == "<" \o tag
        close == "</" \o tag \o ">"
        c == IndexOf(sl, close, i + Len(open))
    IN IF StartsAt(sl, open, i) /\ WordEndsBefore(sl, i + Len(open)) /\ c # 0
       THEN c + Len(close) - i ELSE -1

\* /<nav\b[^>]*>.*?<\/nav>/gi and the same for footer and header: the dot
\* does not match a line break
SectioningElementAt(sl, tag, i) ==
    LET open == "<" \o tag
        close == "</" \o tag \o ">"
        g == IndexOf(sl, ">", i + Len(open))
        c == IndexOf(sl, close, g + 1)
    IN IF StartsAt(sl, open, i) /\ WordEndsBefore(sl, i + Len(open))
          /\ g # 0 /\ c # 0 /\ SameLine(sl, g + 1, c - 1)
       THEN c + Len(close) - i ELSE -1

\* /class="[^"]*breadcrumb[^"]*"/gi and the same for navigation
ClassAttributeAt(sl, token, i) ==
    LET q == IndexOf(sl, "\"", i + 7)
    IN IF StartsAt(sl, "class=\"", i) /\ q # 0
          /\ includes(SubSeq(sl, i + 7, q - 1), token)
       THEN q - i + 1 ELSE -1

\* s.replace(re, ' ') for an element regex with the flags g and i
BlankOutElements(M(_, _, _), tag, s) ==
    LET sl == toLowerCase(s)
    IN ReplaceAll(LAMBDA t, i : M(sl, tag, i), LAMBDA t, i, n : " ", s)

\* s.replace(re, '') for a class regex with the flags g and i
EraseClassAttributes(token, s) ==
    LET sl == toLowerCase(s)
    IN ReplaceAll(LAMBDA t, i : ClassAttributeAt(sl, token, i), Erase, s)

\* replace(/\s+/g, ' '): every maximal run of white space becomes one space
CollapseWhitespace(s) ==
    Build(LAMBDA i : IF Ch(s, i) \in SpaceChars
                     THEN (IF Ch(s, i - 1) \in SpaceChars THEN "" ELSE " ")
                     ELSE Ch(s, i),
          1, Len(s))

\* the k-th replace of cleanHtml, in the order of the source
cleanHtmlPass(k, s) ==
    CASE k = 1 -> BlankOutElements(RawTextElementAt, "script", s)
      [] k = 2 -> BlankOutElements(RawTextElementAt, "style", s)
      [] k = 3 -> BlankOutElements(SectioningElementAt, "nav", s)
      [] k = 4 -> BlankOutElements(SectioningElementAt, "footer", s)
      [] k = 5 -> BlankOutElements(SectioningElementAt, "header", s)
      [] k = 6 -> EraseClassAttributes("breadcrumb", s)
      [] k = 7 -> EraseClassAttributes("navigation", s)
      [] k = 8 -> CollapseWhitespace(s)

cleanHtml(h) == Fold(LAMBDA cleaned, k : cleanHtmlPass(k, cleaned), 1, 8, h)

(***************************************************************************)
(* this.turndown.turndown(cleanedHtml): the TurndownService configured by  *)
(* the constructor and by configureTurndownRules.  The converter parses    *)
(* the text as HTML, collapses the white space of the tree, and replaces   *)
(* every element by the replacement of the first rule whose filter matches.*)
(*                                                                         *)
(* The tree is kept as the sequence of its tokens in document order: a text*)
(* node is one token, an element is an "open" token, its children and a    *)
(* "close" token, an element that has no end tag (img, br) is one "void"   *)
(* token.  The modelled documents use the elements nav, header, footer,    *)
(* div, section, article, aside, main, p, h1..h6, span, code, a, img and   *)
(* br with the attributes class and href; they hold no comment, no         *)
(* character reference and no mis-nested formatting element.               *)
(***************************************************************************)

HeadingNames == {"h1", "h2", "h3", "h4", "h5", "h6"}
\* the filter of the rule blockElementSpacing
ContainerNames == {"div", "section", "article", "aside", "main"}
\* the filter of the rule removeNavigation
NavigationNames == {"nav", "footer", "header"}
\* the block elements of the converter among the modelled elements
BlockNames == HeadingNames \cup ContainerNames \cup NavigationNames \cup {"p"}
VoidNames == {"img", "br"}
\* elements that are converted even when they hold no text
MeaningfulWhenBlankNames == {"a"}

TextToken(data) == [kind |-> "text", name |-> "", data |-> data, className |-> "", href |-> ""]
CloseToken(name) == [kind |-> "close", name |-> name, data |-> "", className |-> "", href |-> ""]
ElementToken(name, className, href) ==
    [kind |-> IF name \in VoidNames THEN "void" ELSE "open",
     name |-> name, data |-> "", className |-> className, href |-> href]

\* a tag starts at position i: "<" and a letter, or "</" and a letter
TagStartAt(s, i) ==
    /\ Ch(s, i) = "<"
    /\ \/ Ch(s, i + 1) \in LetterChars
       \/ Ch(s, i + 1) = "/" /\ Ch(s, i + 2) \in LetterChars

\* the value of attribute attr in the text t of a tag, "" when it is absent:
\* quoted by " or by ', or unquoted up to the next space
AttributeValue(t, attr) ==
    LET tl == toLowerCase(t)
        a == IndexOf(tl, " " \o attr \o "=", 1)
        v == a + Len(attr) + 2
        q == Ch(t, v)
        quoted == q \in {"\"", "'"}
        stop == IF quoted THEN IndexOf(t, q, v + 1)
                ELSE FirstIdx(LAMBDA k : Ch(t, k) \in SpaceChars, v, Len(t))
        last == IF stop = 0 THEN Len(t) ELSE stop - 1
    IN IF a = 0 THEN ""
       ELSE IF quoted THEN SubSeq(t, v + 1, last) ELSE SubSeq(t, v, last)

\* the token of the tag whose text, between "<" and ">", is t
TagToken(t) ==
    LET closing == Ch(t, 1) = "/"
        first == IF closing THEN 2 ELSE 1
        stop == FirstIdx(LAMBDA k : Ch(t, k) \in SpaceChars \cup {"/"}, first, Len(t))
        last == IF stop = 0 THEN Len(t) ELSE stop - 1
        name == toLowerCase(SubSeq(t, first, last))
    IN IF closing THEN CloseToken(name)
       ELSE ElementToken(name, AttributeValue(t, "class"), AttributeValue(t, "href"))

\* the tokens of the text s from position i on; a tag that is not closed by
\* ">" before the end of the text is dropped with the rest of the text
HtmlTokens(s, i) ==
    LET \* st.i: the position of the next token; st.tokens: the tokens before it
        Step(st) ==
            IF st.i > Len(s) THEN [st EXCEPT !.done = TRUE]
            ELSE IF TagStartAt(s, st.i)
            THEN LET e == IndexOf(s, ">", st.i + 1)
                 IN IF e = 0 THEN [st EXCEPT !.done = TRUE]
                    ELSE [i |-> e + 1,
                          tokens |-> Append(st.tokens, TagToken(SubSeq(s, st.i + 1, e - 1))),
                          done |-> FALSE]
            ELSE LET n == FirstIdx(LAMBDA k : TagStartAt(s, k), st.i + 1, Len(s))
                     e == IF n = 0 THEN Len(s) ELSE n - 1
                 IN [i |-> e + 1,
                     tokens |-> Append(st.tokens, TextToken(SubSeq(s, st.i, e))),
                     done |-> FALSE]
        \* a tag starts with "<" and one text stands in front of, between and
        \* behind the tags at most
        n == 2 * CountIdx(LAMBDA k : Ch(s, k) = "<", i, Len(s)) + 2
    IN Iterate(Step, n, [i |-> i, tokens |-> <<>>, done |-> FALSE]).tokens

\* the position of the topmost entry of the stack of open elements that is
\* in names, 0 when there is none (the top of the stack is its last entry)
RECURSIVE TopmostOpen(_, _, _)
TopmostOpen(stack, names, k) ==
    IF k = 0 THEN 0
    ELSE IF stack[k] \in names THEN k ELSE TopmostOpen(stack, names, k - 1)

\* the close tokens of the entries k..Len(stack) of the stack, topmost first
RECURSIVE ClosePopped(_, _)
ClosePopped(stack, k) ==
    IF k > Len(stack) THEN <<>>
    ELSE ClosePopped(stack, k + 1) \o <<CloseToken(stack[k])>>

\* a text node appended to the tree: it is merged into a text node that is
\* the last node so far
AppendText(out, data) ==
    IF Len(out) > 0 /\ out[Len(out)].kind = "text"
    THEN [out EXCEPT ![Len(out)] = TextToken(out[Len(out)].data \o data)]
    ELSE Append(out, TextToken(data))

(***************************************************************************)
(* Tree construction.  A start tag of a block element closes an open p; a  *)
(* heading start tag closes an open heading; an end tag closes the open    *)
(* element of its name with everything opened inside it and is ignored     *)
(* when there is no such element (an inline end tag also when a block      *)
(* element was opened since); "</p>" without an open p makes an empty p;   *)
(* the end of the text closes every open element.                          *)
(***************************************************************************)
\* the stack of open elements and the tree after the token t
TreeStep(st, t) ==
    LET stack == st.stack
        out == st.out
        openP == TopmostOpen(stack, {"p"}, Len(stack))
        \* the stack and the tree after an open p is closed
        stackNoP == IF openP = 0 THEN stack ELSE SubSeq(stack, 1, openP - 1)
        outNoP == IF openP = 0 THEN out ELSE out \o ClosePopped(stack, openP)
        target == IF t.name \in HeadingNames
                  THEN TopmostOpen(stack, HeadingNames, Len(stack))
                  ELSE TopmostOpen(stack, {t.name}, Len(stack))
        blocked == /\ t.name \notin BlockNames
                   /\ TopmostOpen(stack, BlockNames, Len(stack)) > target
    IN CASE t.kind = "text" -> [stack |-> stack, out |-> AppendText(out, t.data)]
         [] t.kind = "void" -> [stack |-> stack, out |-> Append(out, t)]
         [] t.kind = "open" /\ t.name \in BlockNames ->
                LET nested == t.name \in HeadingNames /\ Len(stackNoP) > 0
                              /\ stackNoP[Len(stackNoP)] \in HeadingNames
                    s == IF nested THEN SubSeq(stackNoP, 1, Len(stackNoP) - 1) ELSE stackNoP
                    o == IF nested THEN outNoP \o ClosePopped(stackNoP, Len(stackNoP)) ELSE outNoP
                IN [stack |-> Append(s, t.name), out |-> Append(o, t)]
         [] t.kind = "open" /\ t.name \notin BlockNames ->
                [stack |-> Append(stack, t.name), out |-> Append(out, t)]
         [] t.kind = "close" /\ t.name = "p" /\ openP = 0 ->
                [stack |-> stack,
                 out |-> out \o <<ElementToken("p", "", ""), CloseToken("p")>>]
         [] t.kind = "close" /\ (target = 0 \/ blocked) /\ ~(t.name = "p" /\ openP = 0) -> st
         [] OTHER ->
                [stack |-> SubSeq(stack, 1, target - 1),
                 out |-> out \o ClosePopped(stack, target)]

\* the tree of the tokens from position k on, continuing stack and out
BuildTree(tokens, k, stack, out) ==
    LET end == Fold(LAMBDA st, j : TreeStep(st, tokens[j]), k, Len(tokens),
                    [stack |-> stack, out |-> out])
    IN end.out \o ClosePopped(end.stack, 1)

\* the tree of the HTML text s
HtmlTree(s) == Pipe(LAMBDA tokens : BuildTree(tokens, 1, <<>>, <<>>), HtmlTokens(s, 1))

\* replace(/ $/, ''): one trailing space removed
DropTrailingSpace(s) ==
    IF Len(s) > 0 /\ Ch(s, Len(s)) = " " THEN SubSeq(s, 1, Len(s) - 1) ELSE s

\* the text node at position p of the tree loses its trailing space
TrimTextAt(out, p) ==
    IF p = 0 THEN out ELSE [out EXCEPT ![p] = TextToken(DropTrailingSpace(out[p].data))]

(***************************************************************************)
(* collapseWhitespace of the converter: one walk over the tree in document *)
(* order that visits an element when it enters and when it leaves it.      *)
(* prevText is the position in out of the last text node kept (0: none),   *)
(* keepLeadingWs is set behind a void element.                             *)
(***************************************************************************)
CollapseStep(st, t) ==
    LET out == st.out
        prevText == st.prevText
        keepLeadingWs == st.keepLeadingWs
        single == CollapseWhitespace(t.data)
        atStart == prevText = 0 \/ Ch(out[prevText].data, Len(out[prevText].data)) = " "
        text == IF atStart /\ ~keepLeadingWs /\ Ch(single, 1) = " "
                THEN From(single, 2) ELSE single
    IN CASE t.kind = "text" /\ text = "" -> st
         [] t.kind = "text" /\ text # "" ->
                [out |-> Append(out, TextToken(text)), prevText |-> Len(out) + 1,
                 keepLeadingWs |-> keepLeadingWs]
         [] t.kind # "text" /\ (t.name \in BlockNames \/ t.name = "br") ->
                [out |-> Append(TrimTextAt(out, prevText), t), prevText |-> 0,
                 keepLeadingWs |-> FALSE]
         [] t.kind = "void" /\ t.name # "br" ->
                [out |-> Append(out, t), prevText |-> 0, keepLeadingWs |-> TRUE]
         [] OTHER ->
                [out |-> Append(out, t), prevText |-> prevText,
                 keepLeadingWs |-> IF prevText # 0 THEN FALSE ELSE keepLeadingWs]

CollapseTree(tree, k, out, prevText, keepLeadingWs) ==
    LET end == Fold(LAMBDA st, j : CollapseStep(st, tree[j]), k, Len(tree),
                    [out |-> out, prevText |-> prevText, keepLeadingWs |-> keepLeadingWs])
        trimmed == TrimTextAt(end.out, end.prevText)
    IN IF end.prevText # 0 /\ trimmed[end.prevText].data = ""
       THEN SubSeq(trimmed, 1, end.prevText - 1)
            \o SubSeq(trimmed, end.prevText + 1, Len(trimmed))
       ELSE trimmed

\* the tokens at positions lo..hi are whole nodes: as many close tokens as
\* open tokens
Balanced(tree, lo, hi) ==
    CountIdx(LAMBDA k : tree[k].kind = "open", lo, hi)
    = CountIdx(LAMBDA k : tree[k].kind = "close", lo, hi)

\* the last position of the node that starts at position i
NodeEnd(tree, i) == FirstIdx(LAMBDA k : Balanced(tree, i, k), i, Len(tree))

\* the first position of the node that ends at position c
NodeStart(tree, c) == LastIdx(LAMBDA k : Balanced(tree, k, c), 1, c)

\* node.textContent of the nodes at positions lo..hi
TextContent(tree, lo, hi) == Build(LAMBDA k : tree[k].data, lo, hi)

\* /^\s*$/.test(s)
IsWhite(s) == FirstIdx(LAMBDA k : Ch(s, k) \notin SpaceChars, 1, Len(s)) = 0

\* isBlank of the element at positions i..c: not void, not meaningful when
\* blank, no text but white space, and no such element inside it
IsBlankElement(tree, i, c) ==
    /\ tree[i].kind = "open"
    /\ tree[i].name \notin MeaningfulWhenBlankNames
    /\ IsWhite(TextContent(tree, i, c))
    /\ \A k \in i..c : /\ tree[k].kind # "void"
                       /\ tree[k].name \notin MeaningfulWhenBlankNames

\* the escapes of the converter that apply wherever the character stands:
\* a backslash before each backslash, *, code mark, [, ] and _
EscapeEverywhere(s) ==
    Build(LAMBDA k : IF Ch(s, k) \in {"\\", "*", CodeMark, "[", "]", "_"}
                     THEN "\\" \o Ch(s, k) ELSE Ch(s, k),
          1, Len(s))

\* the escapes anchored at the start of a text node: /^-/, /^\+ /, /^(=+)/,
\* /^(#{1,6}) /, /^~~~/, /^>/ and /^(\d+)\. /
EscapeStart(s) ==
    LET hashes == RunEnd(s, {"#"}, 1)
        digits == RunEnd(s, DigitChars, 1)
    IN IF \/ Ch(s, 1) \in {"-", "=", ">"}
          \/ StartsAt(s, "+ ", 1)
          \/ StartsAt(s, "~~~", 1)
          \/ hashes >= 1 /\ hashes <= 6 /\ Ch(s, hashes + 1) = " "
       THEN "\\" \o s
       ELSE IF digits >= 1 /\ StartsAt(s, ". ", digits + 1)
       THEN SubSeq(s, 1, digits) \o "\\" \o From(s, digits + 1)
       ELSE s

\* TurndownService.prototype.escape
escape(s) == EscapeStart(EscapeEverywhere(s))

\* the number of line feeds at the end of s
TrailingNewlines(s) == Len(s) - LastIdx(LAMBDA k : Ch(s, k) # "\n", 1, Len(s))

\* the number of line feeds at the start of s
LeadingNewlines(s) == RunEnd(s, {"\n"}, 1)

\* join of the converter: the line feeds between the output so far and the
\* next replacement are reduced to the larger of the two runs, at most two
join(output, replacement) ==
    LET t == TrailingNewlines(output)
        l == LeadingNewlines(replacement)
    IN SubSeq(output, 1, Len(output) - t)
       \o SubSeq("\n\n", 1, Min(2, Max(t, l)))
       \o From(replacement, l + 1)

\* the white space at the start of s (all of s when s is white space only)
LeadingSpace(s) == SubSeq(s, 1, RunEnd(s, SpaceChars, 1))

\* the white space at the end of s ("" when s is white space only)
TrailingSpace(s) ==
    IF IsWhite(s) THEN ""
    ELSE From(s, LastIdx(LAMBDA k : Ch(s, k) \notin SpaceChars, 1, Len(s)) + 1)

\* isFlankedByWhitespace('left'): the previous sibling of the node at i is a
\* text node or an inline element whose text ends with a space
FlankedLeft(tree, i) ==
    /\ i > 1
    /\ tree[i - 1].kind # "open"
    /\ tree[i - 1].name \notin BlockNames
    /\ LET tc == TextContent(tree, NodeStart(tree, i - 1), i - 1)
       IN Ch(tc, Len(tc)) = " "

\* isFlankedByWhitespace('right'): the next sibling of the node that ends at
\* c is a text node or an inline element whose text starts with a space
FlankedRight(tree, c) ==
    /\ c < Len(tree)
    /\ tree[c + 1].kind # "close"
    /\ tree[c + 1].name \notin BlockNames
    /\ Ch(TextContent(tree, c + 1, NodeEnd(tree, c + 1)), 1) = " "

\* flankingWhitespace of the node at positions i..c: <<leading, trailing>>
flankingWhitespace(tree, i, c) ==
    LET tc == TextContent(tree, i, c)
        leading == LeadingSpace(tc)
        trailing == TrailingSpace(tc)
    IN IF tree[i].name \in BlockNames THEN <<"", "">>
       ELSE <<IF leading # "" /\ FlankedLeft(tree, i) THEN "" ELSE leading,
              IF trailing # "" /\ FlankedRight(tree, c) THEN "" ELSE trailing>>

\* '#'.repeat(parseInt(node.nodeName.charAt(1)))
headerPrefix(name) == SubSeq("######", 1, CHOOSE n \in 1..6 : Ch(DigitStr, n + 1) = Ch(name, 2))

\* className.includes(...) of the rule removeByClass
HasRemovedClass(className) ==
    includes(className, "navigation") \/ includes(className, "breadcrumb")

\* hasContentClass of the rule blockElementSpacing
HasContentClass(className) ==
    /\ className # ""
    /\ \/ includes(className, "content")
       \/ includes(className, "section")
       \/ includes(className, "main")

(***************************************************************************)
(* rule.replacement(content, node) of the first rule whose filter matches  *)
(* the element e.  The blank rule comes first; the rules added by          *)
(* configureTurndownRules follow, the one added last first (headerSpacing, *)
(* smartWhitespace, preserveCode, blockElementSpacing, removeByClass,      *)
(* removeNavigation, removeImages); then the rules of the converter itself *)
(* (paragraph, line break, inlined link) and its default replacement.  The *)
(* filter of smartWhitespace asks for a text node and rules are looked up  *)
(* for elements only, so that rule matches nothing.                        *)
(***************************************************************************)
\* a faulty variant of RuleReplacement: configureTurndownRules not called,
\* so that the rules of the converter itself apply (the image rule writes
\* image markup; the alt text and the src are not kept in the tokens)
RuleReplacementBuiltIn(e, blank, content) ==
    IF blank THEN (IF e.name \in BlockNames THEN "\n\n" ELSE "")
    ELSE IF e.name = "img" THEN "![image](src)"
    ELSE IF e.name \in HeadingNames
    THEN "\n\n" \o headerPrefix(e.name) \o " " \o content \o "\n\n"
    ELSE IF e.name = "code" THEN CodeMark \o content \o CodeMark
    ELSE IF e.name = "br" THEN "  \n"
    ELSE IF e.name = "a" /\ e.href # "" THEN "[" \o content \o "](" \o e.href \o ")"
    ELSE IF e.name \in BlockNames THEN "\n\n" \o content \o "\n\n"
    ELSE content

RuleReplacement(e, blank, content) ==
    LET trimmedContent == trim(content)
        isBlock == e.name \in BlockNames
    IN CASE blank -> (IF isBlock THEN "\n\n" ELSE "")
         [] ~blank /\ e.name \in HeadingNames ->
                (IF trimmedContent = "" THEN ""
                 ELSE "\n\n" \o headerPrefix(e.name) \o " " \o trimmedContent \o "\n\n")
         [] ~blank /\ e.name = "code" -> CodeMark \o content \o CodeMark
         [] ~blank /\ e.name \in ContainerNames ->
                (IF trimmedContent = "" THEN ""
                 ELSE IF HasContentClass(e.className)
                 THEN "\n\n" \o trimmedContent \o "\n\n"
                 ELSE trimmedContent)
         [] OTHER ->
                IF HasRemovedClass(e.className) THEN "\n"
                ELSE IF e.name \in NavigationNames THEN "\n\n"
                ELSE IF e.name = "img" THEN ""
                ELSE IF e.name = "p" THEN "\n\n" \o content \o "\n\n"
                ELSE IF e.name = "br" THEN "  \n"
                ELSE IF e.name = "a" /\ e.href # ""
                THEN "[" \o content \o "](" \o e.href \o ")"
                ELSE IF isBlock THEN "\n\n" \o content \o "\n\n"
                ELSE content

\* replacementForNode: the replacement of the element at positions i..c
\* whose children were converted to content
replacementForNode(tree, i, c, content) ==
    LET whitespace == flankingWhitespace(tree, i, c)
        inner == IF whitespace[1] # "" \/ whitespace[2] # "" THEN trim(content) ELSE content
    IN whitespace[1]
       \o RuleReplacement(tree[i], IsBlankElement(tree, i, c), inner)
       \o whitespace[2]

\* One step of process, the walk that converts the nodes in document order.
\* st.outputs holds the output of the children converted so far for every
\* element that is entered and not left, the outermost first, behind the
\* output of the document; st.opens holds the positions of these elements.
\* Text inside a code element is not escaped.
processStep(tree, st, k) ==
    LET depth == Len(st.outputs)
        isCode == \E j \in 1..Len(st.opens) : tree[st.opens[j]].name = "code"
        Joined(replacement) ==
            [st EXCEPT !.outputs[depth] = join(st.outputs[depth], replacement)]
    IN CASE tree[k].kind = "text" ->
                Joined(IF isCode THEN tree[k].data ELSE escape(tree[k].data))
         [] tree[k].kind = "void" -> Joined(replacementForNode(tree, k, k, ""))
         [] tree[k].kind = "open" ->
                [outputs |-> Append(st.outputs, ""), opens |-> Append(st.opens, k)]
         [] OTHER ->
                LET i == st.opens[Len(st.opens)]
                    content == st.outputs[depth]
                IN [outputs |-> [SubSeq(st.outputs, 1, depth - 1) EXCEPT ![depth - 1] =
                                    join(st.outputs[depth - 1],
                                         replacementForNode(tree, i, k, content))],
                    opens |-> SubSeq(st.opens, 1, Len(st.opens) - 1)]

\* process: the output of the nodes of the tree
process(tree) ==
    Fold(LAMBDA st, k : processStep(tree, st, k), 1, Len(tree),
         [outputs |-> <<"">>, opens |-> <<>>]).outputs[1]

\* postProcess: replace(/^[\t\r\n]+/, '').replace(/[\t\r\n\s]+$/, '')
postProcess(output) ==
    LET a == RunEnd(output, {"\t", "\r", "\n"}, 1) + 1
        rest == From(output, a)
    IN IF IsWhite(rest) THEN ""
       ELSE SubSeq(rest, 1, Len(rest) - Len(TrailingSpace(rest)))

\* TurndownService.prototype.turndown
turndown(input) ==
    IF input = "" THEN ""
    ELSE LET Pass(k, v) ==
                 CASE k = 1 -> HtmlTree(v)
                   [] k = 2 -> CollapseTree(v, 1, <<>>, 0, FALSE)
                   [] k = 3 -> process(v)
                   [] k = 4 -> postProcess(v)
         IN Fold(LAMBDA v, k : Pass(k, v), 1, 4, input)

(***************************************************************************)
(* extractKeywords and extractRelatedSections.  A JavaScript Set that is   *)
(* turned into an array is a sequence without repetitions, in insertion    *)
(* order.                                                                  *)
(***************************************************************************)

\* a faulty variant of SetAdd: Array.prototype.push in the place of a Set
PushAlways(seq, x) == Append(seq, x)

\* Set.prototype.add
SetAdd(seq, x) == IF x \in Range(seq) THEN seq ELSE Append(seq, x)

\* the elements of b added to the Set a, in order
SetAddAll(a, b) == Fold(LAMBDA set, k : SetAdd(set, b[k]), 1, Len(b), a)

\* Array.prototype.slice(0, n)
Slice(seq, n) == SubSeq(seq, 1, Min(n, Len(seq)))

\* the cap on the keywords and on the related sections
MaxKeywords == 20
MaxRelatedSections == 5

\* /\b[a-z]{3,}\b/g on lower-cased text: the word that starts at i, "" when
\* no match starts there
WordAt(sl, i) ==
    LET e == RunEnd(sl, LowerChars, i)
    IN IF Ch(sl, i) \in LowerChars /\ Ch(sl, i - 1) \notin WordChars
          /\ Ch(sl, e + 1) \notin WordChars /\ e - i + 1 >= 3
       THEN SubSeq(sl, i, e) ELSE ""

\* the vocabulary words among the matches that start in lo..hi, each once, in
\* the order of their first match
RECURSIVE TermWords(_, _, _)
TermWords(sl, lo, hi) ==
    IF lo > hi THEN <<>>
    ELSE IF lo = hi
         THEN (IF WordAt(sl, lo) \in Range(appleDesignTerms) THEN <<WordAt(sl, lo)>> ELSE <<>>)
    ELSE LET m == (lo + hi) \div 2
         IN SetAddAll(TermWords(sl, lo, m), TermWords(sl, m + 1, hi))

\* const words = content.toLowerCase().match(...) || [] : items holds the
\* matches that the loop adds, the vocabulary words
words(content) ==
    LET sl == toLowerCase(content)
        none == FirstIdx(LAMBDA i : WordAt(sl, i) # "", 1, Len(sl)) = 0
    IN OrEmpty([isNull |-> none, items |-> TermWords(sl, 1, Len(sl))])

\* iterating over null raises a TypeError
extractKeywordsThrows(content) == words(content).isNull

\* a faulty variant of extractKeywords: the words of the text are added
\* before the title, the platform and the category
extractKeywordsWordsFirst(content, sec) ==
    LET found == SetAddAll(<<>>, words(content).items)
        seeded == SetAdd(SetAdd(SetAdd(found, toLowerCase(sec.title)),
                                toLowerCase(sec.platform)),
                         toLowerCase(sec.category))
    IN Slice(seeded, MaxKeywords)

extractKeywords(content, sec) ==
    LET seeds == SetAdd(SetAdd(SetAdd(<<>>, toLowerCase(sec.title)),
                               toLowerCase(sec.platform)),
                        toLowerCase(sec.category))
    IN Slice(SetAddAll(seeds, words(content).items), MaxKeywords)

\* /see also[:\s]+(.*?)(?:\n|$)/i : the first position where the label is
\* followed by a colon or white space, 0 when there is none
SeeAlsoStart(sl) ==
    FirstIdx(LAMBDA i : StartsAt(sl, "see also", i) /\ Ch(sl, i + 8) \in SpaceChars \cup {":"},
             1, Len(sl))

\* seeAlsoMatch[1]: behind the colons and white space, up to the line break
SeeAlsoLine(content) ==
    LET sl == toLowerCase(content)
        i == SeeAlsoStart(sl)
        w == RunEnd(sl, SpaceChars \cup {":"}, i + 8)
        nl == IndexOf(content, "\n", w + 1)
    IN SubSeq(content, w + 1, IF nl = 0 THEN Len(content) ELSE nl - 1)

\* /\[([^\]]+)\]/g
BracketedAt(s, i) ==
    LET c == IndexOf(s, "]", i + 1)
    IN IF Ch(s, i) = "[" /\ c >= i + 2 THEN c - i + 1 ELSE -1

\* links.forEach(link => related.add(link.slice(1, -1))), from position from
BracketedTitles(s, from, related) ==
    LET Step(st) ==
            LET i == FirstIdx(LAMBDA k : BracketedAt(s, k) >= 1, st.from, Len(s))
                n == BracketedAt(s, i)
            IN IF i = 0 THEN [st EXCEPT !.done = TRUE]
               ELSE [from |-> i + n,
                     related |-> SetAdd(st.related, SubSeq(s, i + 1, i + n - 2)),
                     done |-> FALSE]
        n == CountIdx(LAMBDA k : Ch(s, k) = "[", from, Len(s)) + 1
    IN Iterate(Step, n, [from |-> from, related |-> related, done |-> FALSE]).related

\* const links = seeAlsoMatch[1].match(...) || [] : items holds the titles
\* that the loop adds
links(line) ==
    LET none == FirstIdx(LAMBDA i : BracketedAt(line, i) >= 1, 1, Len(line)) = 0
    IN OrEmpty([isNull |-> none, items |-> BracketedTitles(line, 1, <<>>)])

\* links.forEach on null raises a TypeError
extractRelatedSectionsThrows(content) ==
    SeeAlsoStart(toLowerCase(content)) # 0 /\ links(SeeAlsoLine(content)).isNull

extractRelatedSections(content) ==
    IF SeeAlsoStart(toLowerCase(content)) = 0 THEN <<>>
    ELSE Slice(links(SeeAlsoLine(content)).items, MaxRelatedSections)

(***************************************************************************)
(* cleanMarkdown: the passes of the Markdown normalizer, in source order.  *)
(* Each XxxAt(s, i) is the length of the match of one regex at position i  *)
(* (-1: no match there); sl is the lower-cased text for the i flag.        *)
(***************************************************************************)

BannerPhrase == "this page requires javascript"
RefreshPhrase == "refresh the page to view its content"
TurnOnPhrase == "please turn on javascript"

\* replace(/^.*?this page requires javascript.*?refresh the page to view its
\*          content\.?\s*/is, '')
\* (flags i, s; no g, no m: from the start of the text through the first
\*  refresh phrase behind the first banner phrase, an optional ".", and the
\*  white space that follows)
StripLeadingBanner(s) ==
    LET sl == toLowerCase(s)
        a == IndexOf(sl, BannerPhrase, 1)
        b == IF a = 0 THEN 0 ELSE IndexOf(sl, RefreshPhrase, a + Len(BannerPhrase))
        e == b + Len(RefreshPhrase) - 1
        d == IF Ch(s, e + 1) = "." THEN e + 1 ELSE e
    IN IF a = 0 \/ b = 0 THEN s ELSE From(s, RunEnd(s, SpaceChars, d + 1) + 1)

\* "#", \s*, the banner phrase, \.?, \s* at position i: the position just
\* behind the match, 0 when there is none
BannerHeadingEnd(sl, i) ==
    LET w == RunEnd(sl, SpaceChars, i + 1)
        e == w + Len(BannerPhrase)
        d == IF Ch(sl, e + 1) = "." THEN e + 1 ELSE e
    IN IF Ch(sl, i) = "#" /\ StartsAt(sl, BannerPhrase, w + 1)
       THEN RunEnd(sl, SpaceChars, d + 1) + 1 ELSE 0

\* replace(/^#\s*this page requires javascript\.?\s*please turn on
\*          javascript.*?\s*/is, '')
StripBannerHeadingAtStart(s) ==
    LET sl == toLowerCase(s)
        p == BannerHeadingEnd(sl, 1)
    IN IF p # 0 /\ StartsAt(sl, TurnOnPhrase, p)
       THEN From(s, RunEnd(s, SpaceChars, p + Len(TurnOnPhrase)) + 1)
       ELSE s

\* /^#\s*this page requires javascript\.?\s*/gim
BannerHeadingAt(sl, i) ==
    IF LineStart(sl, i) /\ BannerHeadingEnd(sl, i) # 0
    THEN BannerHeadingEnd(sl, i) - i ELSE -1

\* /please turn on javascript.*?content\.\s*/gim
TurnOnSentenceAt(sl, i) ==
    LET c == IndexOf(sl, "content.", i + Len(TurnOnPhrase))
    IN IF StartsAt(sl, TurnOnPhrase, i) /\ c # 0 /\ SameLine(sl, i, c)
       THEN RunEnd(sl, SpaceChars, c + 8) - i + 1 ELSE -1

\* /skip navigation\s*/gi
SkipNavigationAt(sl, i) ==
    IF StartsAt(sl, "skip navigation", i)
    THEN RunEnd(sl, SpaceChars, i + 15) - i + 1 ELSE -1

\* /platform considerations\s*no additional considerations for.*?\./gi
NoConsiderationsAt(sl, i) ==
    LET w == RunEnd(sl, SpaceChars, i + 23)
        q == w + 1 + Len("no additional considerations for")
        dot == IndexOf(sl, ".", q)
    IN IF StartsAt(sl, "platform considerations", i)
          /\ StartsAt(sl, "no additional considerations for", w + 1)
          /\ dot # 0 /\ SameLine(sl, q, dot)
       THEN dot - i + 1 ELSE -1

\* /current page is \w+\s*/gi
CurrentPageAt(sl, i) ==
    LET w == RunEnd(sl, WordChars, i + 16)
    IN IF StartsAt(sl, "current page is ", i) /\ w >= i + 16
       THEN RunEnd(sl, SpaceChars, w + 1) - i + 1 ELSE -1

\* /supported platforms.*$/gi   (no m flag: $ is the end of the text)
SupportedPlatformsAt(sl, i) ==
    IF StartsAt(sl, "supported platforms", i) /\ SameLine(sl, i, Len(sl))
    THEN Len(sl) - i + 1 ELSE -1

\* s.replace(re, '') for a regex with the i and g flags
EraseAllCI(M(_, _), s) ==
    Pipe(LAMBDA sl : ReplaceAll(LAMBDA t, i : M(sl, i), Erase, s), toLowerCase(s))

removeAppleSPAMetadata(content) ==
    LET Pass(k, cleaned) ==
            CASE k = 1 -> EraseAllCI(NoConsiderationsAt, cleaned)
              [] k = 2 -> EraseAllCI(CurrentPageAt, cleaned)
              [] k = 3 -> EraseAllCI(SupportedPlatformsAt, cleaned)
    IN Fold(LAMBDA cleaned, k : Pass(k, cleaned), 1, 3, content)

\* content.split('\n')
SplitLines(s, from) ==
    LET Step(st) ==
            LET nl == IndexOf(s, "\n", st.from)
            IN IF nl = 0
               THEN [from |-> Len(s) + 1, lines |-> Append(st.lines, From(s, st.from)),
                     done |-> TRUE]
               ELSE [from |-> nl + 1, lines |-> Append(st.lines, SubSeq(s, st.from, nl - 1)),
                     done |-> FALSE]
        n == CountIdx(LAMBDA k : Ch(s, k) = "\n", from, Len(s)) + 1
    IN Iterate(Step, n, [from |-> from, lines |-> <<>>, done |-> FALSE]).lines

\* lines.join('\n')
JoinLines(lines) ==
    Build(LAMBDA k : (IF k > 1 THEN "\n" ELSE "") \o lines[k], 1, Len(lines))

\* titleMatch[1]: what is left behind the greedy #+ and \s*; when nothing is
\* left the regex backtracks by one character
TitleOf(line) ==
    LET h == RunEnd(line, {"#"}, 1)
        w == RunEnd(line, SpaceChars, h + 1)
    IN IF w < Len(line) THEN From(line, w + 1) ELSE Ch(line, Len(line))

\* line.match(/^#+\s*(.+)$/) succeeds
IsTitleLine(line) ==
    /\ Ch(line, 1) = "#"
    /\ Len(line) >= 2
    /\ SameLine(TitleOf(line), 1, Len(TitleOf(line)))

\* the length above which a repeated heading line is kept
LongHeaderLength == 20

\* a faulty variant of FilterTitles: heading lines compared with their marks,
\* so that a title repeated at another level is not a repetition
FilterTitlesWithLevel(lines, k, seen) ==
    LET Step(st, j) ==
            LET line == lines[j]
                title == trim(toLowerCase(line))
            IN IF IsTitleLine(line)
               THEN [kept |-> IF title \notin st.seen \/ Len(line) > LongHeaderLength
                              THEN Append(st.kept, line) ELSE st.kept,
                     seen |-> st.seen \cup {title}]
               ELSE [kept |-> Append(st.kept, line), seen |-> st.seen]
    IN Fold(Step, k, Len(lines), [kept |-> <<>>, seen |-> seen]).kept

\* the filter of removeRepeatedTitles, lines k.. with the titles of the
\* heading lines already seen
FilterTitles(lines, k, seen) ==
    LET Step(st, j) ==
            LET line == lines[j]
                title == trim(toLowerCase(TitleOf(line)))
            IN IF IsTitleLine(line)
               THEN [kept |-> IF title \notin st.seen \/ Len(line) > LongHeaderLength
                              THEN Append(st.kept, line) ELSE st.kept,
                     seen |-> st.seen \cup {title}]
               ELSE [kept |-> Append(st.kept, line), seen |-> st.seen]
    IN Fold(Step, k, Len(lines), [kept |-> <<>>, seen |-> seen]).kept

removeRepeatedTitles(content) ==
    LET Pass(k, v) ==
            CASE k = 1 -> SplitLines(v, 1)
              [] k = 2 -> FilterTitles(v, 1, {})
              [] k = 3 -> JoinLines(v)
    IN Fold(LAMBDA v, k : Pass(k, v), 1, 3, content)

\* /\n{3,}/g
BlankLinesAt(s, i) ==
    LET e == RunEnd(s, {"\n"}, i) IN IF e - i + 1 >= 3 THEN e - i + 1 ELSE -1

\* /[ \t]+$/gm
TrailingBlanksAt(s, i) ==
    LET e == RunEnd(s, BlankChars, i)
    IN IF e >= i /\ LineEnd(s, e + 1) THEN e - i + 1 ELSE -1

\* replace(/[ \t]+/g, ' '): every maximal run of blanks becomes one space
CollapseBlanks(s) ==
    Build(LAMBDA i : IF Ch(s, i) \in BlankChars
                     THEN (IF Ch(s, i - 1) \in BlankChars THEN "" ELSE " ")
                     ELSE Ch(s, i),
          1, Len(s))

\* /([^\n])(#+\s)/g
BeforeHeaderAt(s, i) ==
    LET e == RunEnd(s, {"#"}, i + 1)
    IN IF Ch(s, i) # "\n" /\ Ch(s, i + 1) = "#" /\ Ch(s, e + 1) \in SpaceChars
       THEN e + 1 - i + 1 ELSE -1

\* '$1\n\n$2' for the match above
BeforeHeaderRepl(s, i, n) == Ch(s, i) \o "\n\n" \o SubSeq(s, i + 1, i + n - 1)

\* /(#+\s[^\n]+)([^\n])/g
AfterHeaderAt(s, i) ==
    LET e == RunEnd(s, {"#"}, i)
        nl == IndexOf(s, "\n", e + 2)
        f == IF nl = 0 THEN Len(s) ELSE nl - 1
    IN IF Ch(s, i) = "#" /\ Ch(s, e + 1) \in SpaceChars /\ f >= e + 3
       THEN f - i + 1 ELSE -1

\* '$1\n\n$2' for the match above: $2 is the last character of the match
AfterHeaderRepl(s, i, n) ==
    SubSeq(s, i, i + n - 2) \o "\n\n" \o Ch(s, i + n - 1)

\* /\[([^\]]*)\]\(\)/g
EmptyLinkAt(s, i) ==
    LET c == IndexOf(s, "]", i + 1)
    IN IF Ch(s, i) = "[" /\ c # 0 /\ StartsAt(s, "]()", c)
       THEN c + 2 - i + 1 ELSE -1

\* '$1' for the match above
EmptyLinkRepl(s, i, n) == SubSeq(s, i + 1, i + n - 4)

\* the greatest p in lo..hi with LineEnd(s, p + 1), lo - 1 when there is none
LastLineEnd(s, lo, hi) ==
    LET h == LastIdx(LAMBDA k : LineEnd(s, k + 1), lo, hi)
    IN IF h = 0 THEN lo - 1 ELSE h

\* /^#+\s*$/gm
EmptyHeaderAt(s, i) ==
    LET e == RunEnd(s, {"#"}, i)
        w == RunEnd(s, SpaceChars, e + 1)
        p == LastLineEnd(s, e, w)
    IN IF LineStart(s, i) /\ Ch(s, i) = "#" /\ p >= e THEN p - i + 1 ELSE -1

\* /^\s*[*+]\s/gm
BulletAt(s, i) ==
    LET w == RunEnd(s, SpaceChars, i)
    IN IF LineStart(s, i) /\ Ch(s, w + 1) \in {"*", "+"} /\ Ch(s, w + 2) \in SpaceChars
       THEN w + 2 - i + 1 ELSE -1

BulletRepl(s, i, n) == "- "

(***************************************************************************)
(* fixWordConcatenation.                                                   *)
(***************************************************************************)
higTerms ==
    <<"Best practices", "Guidelines", "When to use", "How to use",
      "iOS", "macOS", "watchOS", "tvOS", "visionOS",
      "Tab bar", "Navigation bar", "Button", "Picker", "Slider",
      "Action sheet", "Alert", "Popover", "Sheet",
      "Accessibility", "VoiceOver", "Dynamic Type",
      "SF Symbols", "App Store">>

\* term.replace(/\s+/g, '')
RemoveSpaces(term) ==
    Build(LAMBDA i : IF Ch(term, i) \in SpaceChars THEN "" ELSE Ch(term, i), 1, Len(term))

\* replace(/([a-z])([A-Z])/g, '$1 $2')
\* a faulty variant of SplitLowerUpper: the g flag left out, so that only
\* the first boundary gets its space
SplitLowerUpperOnce(s) ==
    LET first == FirstIdx(LAMBDA i : Ch(s, i) \in LowerChars /\ Ch(s, i + 1) \in UpperChars,
                          1, Len(s))
    IN IF first = 0 THEN s ELSE SubSeq(s, 1, first) \o " " \o From(s, first + 1)

SplitLowerUpper(s) ==
    Build(LAMBDA i : IF Ch(s, i) \in LowerChars /\ Ch(s, i + 1) \in UpperChars
                     THEN Ch(s, i) \o " " ELSE Ch(s, i),
          1, Len(s))

\* the greatest p in lo..hi where tl occurs in sl at p + 1, 0 when none
LastTermStart(sl, tl, lo, hi) == LastIdx(LAMBDA k : StartsAt(sl, tl, k + 1), lo, hi)

\* new RegExp(`([a-z]{2,})${termNoSpaces}`, 'gi'): the end of the prefix of
\* the match at i (under the i flag [a-z] is any letter; the prefix is greedy)
PrefixEnd(sl, tl, i) ==
    IF Ch(sl, i) \in LowerChars
    THEN LastTermStart(sl, tl, i + 1, RunEnd(sl, LowerChars, i))
    ELSE 0

PrefixedTermAt(sl, tl, i) ==
    IF PrefixEnd(sl, tl, i) # 0 THEN PrefixEnd(sl, tl, i) + Len(tl) - i + 1 ELSE -1

\* the callback of the first replace: prefix.length < 3 ? match : prefix term
PrefixedTermRepl(s, sl, term, tl, i, n) ==
    LET prefix == SubSeq(s, i, i + n - 1 - Len(tl))
    IN IF Len(prefix) < 3 THEN SubSeq(s, i, i + n - 1) ELSE prefix \o " " \o term

\* new RegExp(`${termNoSpaces}([A-Z][a-z]{2,})`, 'gi')
\* (under the i flag both classes are any letter; the suffix is greedy)
TermSuffixedAt(sl, tl, i) ==
    LET e == RunEnd(sl, LowerChars, i + Len(tl))
    IN IF StartsAt(sl, tl, i) /\ e - (i + Len(tl)) + 1 >= 3 THEN e - i + 1 ELSE -1

\* the callback of the second replace: suffixMatch[1] is the match behind the
\* term, always longer than 2
TermSuffixedRepl(s, term, tl, i, n) ==
    term \o " " \o SubSeq(s, i + Len(tl), i + n - 1)

\* the body of the loop over higTerms, for one term
FixTerm(fixed, term) ==
    LET tl == toLowerCase(RemoveSpaces(term))
        Step1(sl1) ==
            IF ~includes(sl1, tl) THEN fixed
            ELSE ReplaceAll(LAMBDA t, i : PrefixedTermAt(sl1, tl, i),
                            LAMBDA t, i, n : PrefixedTermRepl(t, sl1, term, tl, i, n),
                            fixed)
        Step2(step1, sl2) ==
            IF ~includes(sl2, tl) THEN step1
            ELSE ReplaceAll(LAMBDA t, i : TermSuffixedAt(sl2, tl, i),
                            LAMBDA t, i, n : TermSuffixedRepl(t, term, tl, i, n),
                            step1)
        Second(step1) == Pipe(LAMBDA sl2 : Step2(step1, sl2), toLowerCase(step1))
    IN Pipe(Second, Pipe(Step1, toLowerCase(fixed)))

\* for (const term of higTerms) ... , from the k-th term on (no term matches
\* in the empty text)
FixTerms(fixed, k) ==
    Fold(LAMBDA text, j : IF text = "" THEN text ELSE FixTerm(text, higTerms[j]),
         k, Len(higTerms), fixed)

\* replace(/([a-z])\.([A-Z])/g, '$1. $2') and the same for "!" and "?"
SpaceAfterPunct(s, mark) ==
    Build(LAMBDA i : IF Ch(s, i) = mark /\ Ch(s, i - 1) \in LowerChars
                        /\ Ch(s, i + 1) \in UpperChars
                     THEN mark \o " " ELSE Ch(s, i),
          1, Len(s))

\* replace(/([0-9])([A-Za-z])/g, '$1 $2')
SplitDigitLetter(s) ==
    Build(LAMBDA i : IF Ch(s, i) \in DigitChars /\ Ch(s, i + 1) \in LetterChars
                     THEN Ch(s, i) \o " " ELSE Ch(s, i),
          1, Len(s))

\* replace(/([A-Za-z])([0-9])/g, '$1 $2')
SplitLetterDigit(s) ==
    Build(LAMBDA i : IF Ch(s, i) \in LetterChars /\ Ch(s, i + 1) \in DigitChars
                     THEN Ch(s, i) \o " " ELSE Ch(s, i),
          1, Len(s))

fixWordConcatenation(content) ==
    LET Pass(k, fixed) ==
            CASE k = 1 -> SplitLowerUpper(fixed)
              [] k = 2 -> FixTerms(fixed, 1)
              [] k = 3 -> SpaceAfterPunct(fixed, ".")
              [] k = 4 -> SpaceAfterPunct(fixed, "!")
              [] k = 5 -> SpaceAfterPunct(fixed, "?")
              [] k = 6 -> SplitDigitLetter(fixed)
              [] k = 7 -> SplitLetterDigit(fixed)
    IN Fold(LAMBDA fixed, k : Pass(k, fixed), 1, 7, content)

(***************************************************************************)
(* removeTrailingMetadata: four patterns with the flags g, i, s; each      *)
(* match runs to the end of the text.                                      *)
(***************************************************************************)

\* /resources?\s*related.*?change log.*$/gis
ResourcesRelatedAt(sl, i) ==
    LET a == IF Ch(sl, i + 8) = "s" THEN i + 9 ELSE i + 8
        w == RunEnd(sl, SpaceChars, a)
    IN IF StartsAt(sl, "resource", i) /\ StartsAt(sl, "related", w + 1)
          /\ IndexOf(sl, "change log", w + 8) # 0
       THEN Len(sl) - i + 1 ELSE -1

\* /change log\s*date\s*changes.*$/gis
ChangeLogTableAt(sl, i) ==
    LET w == RunEnd(sl, SpaceChars, i + 10)
        v == RunEnd(sl, SpaceChars, w + 5)
    IN IF StartsAt(sl, "change log", i) /\ StartsAt(sl, "date", w + 1)
          /\ StartsAt(sl, "changes", v + 1)
       THEN Len(sl) - i + 1 ELSE -1

\* /videos\s*discoverable design.*$/gis
VideosAt(sl, i) ==
    LET w == RunEnd(sl, SpaceChars, i + 6)
    IN IF StartsAt(sl, "videos", i) /\ StartsAt(sl, "discoverable design", w + 1)
       THEN Len(sl) - i + 1 ELSE -1

\* /platform considerations.*?resources.*$/gis
ConsiderationsResourcesAt(sl, i) ==
    IF StartsAt(sl, "platform considerations", i)
       /\ IndexOf(sl, "resources", i + 23) # 0
    THEN Len(sl) - i + 1 ELSE -1

removeTrailingMetadata(content) ==
    LET Pass(k, cleaned) ==
            CASE k = 1 -> EraseAllCI(ResourcesRelatedAt, cleaned)
              [] k = 2 -> EraseAllCI(ChangeLogTableAt, cleaned)
              [] k = 3 -> EraseAllCI(VideosAt, cleaned)
              [] k = 4 -> EraseAllCI(ConsiderationsResourcesAt, cleaned)
              [] k = 5 -> trim(cleaned)
    IN Fold(LAMBDA cleaned, k : Pass(k, cleaned), 1, 5, content)

(***************************************************************************)
(* cleanMarkdown                                                           *)
(***************************************************************************)

\* the passes up to removeAppleSPAMetadata: the JavaScript banner and the
\* "skip navigation" tokens
StripBanners(markdown) ==
    LET Pass(k, cleaned) ==
            CASE k = 1 -> StripLeadingBanner(cleaned)
              [] k = 2 -> StripBannerHeadingAtStart(cleaned)
              [] k = 3 -> EraseAllCI(BannerHeadingAt, cleaned)
              [] k = 4 -> EraseAllCI(TurnOnSentenceAt, cleaned)
              [] k = 5 -> EraseAllCI(SkipNavigationAt, cleaned)
    IN Fold(LAMBDA cleaned, k : Pass(k, cleaned), 1, 5, markdown)

\* "Clean up spacing while preserving word boundaries"
NormalizeSpacing(s) ==
    LET Pass(k, cleaned) ==
            CASE k = 1 -> ReplaceAll(BlankLinesAt, LAMBDA t, i, n : "\n\n", cleaned)
              [] k = 2 -> ReplaceAll(TrailingBlanksAt, Erase, cleaned)
              [] k = 3 -> CollapseBlanks(cleaned)
    IN Fold(LAMBDA cleaned, k : Pass(k, cleaned), 1, 3, s)

\* "Ensure spacing around headers"
SpaceBeforeHeaders(s) == ReplaceAll(BeforeHeaderAt, BeforeHeaderRepl, s)
SpaceAfterHeaders(s) == ReplaceAll(AfterHeaderAt, AfterHeaderRepl, s)

\* malformed links, empty headers, list markers
RepairMarkup(s) ==
    LET Pass(k, cleaned) ==
            CASE k = 1 -> ReplaceAll(EmptyLinkAt, EmptyLinkRepl, cleaned)
              [] k = 2 -> ReplaceAll(EmptyHeaderAt, Erase, cleaned)
              [] k = 3 -> ReplaceAll(BulletAt, BulletRepl, cleaned)
    IN Fold(LAMBDA cleaned, k : Pass(k, cleaned), 1, 3, s)

\* the k-th pass of cleanMarkdown, in the order of the source
cleanMarkdownPass(k, s) ==
    CASE k = 1 -> StripBanners(s)
      [] k = 2 -> removeAppleSPAMetadata(s)
      [] k = 3 -> removeRepeatedTitles(s)
      [] k = 4 -> NormalizeSpacing(s)
      [] k = 5 -> SpaceBeforeHeaders(s)
      [] k = 6 -> SpaceAfterHeaders(s)
      [] k = 7 -> RepairMarkup(s)
      [] k = 8 -> fixWordConcatenation(s)
      [] k = 9 -> removeTrailingMetadata(s)
      [] k = 10 -> trim(s)

cleanMarkdown(markdown) ==
    Fold(LAMBDA cleaned, k : cleanMarkdownPass(k, cleaned), 1, 10, markdown)

(***************************************************************************)
(* calculateQualityMetrics and detectFallbackContent.                      *)
(* A score x of the source is the integer x * ScoreUnit here; every product*)
(* and sum of the source is then exact.                                    *)
(***************************************************************************)
ScoreUnit == 4000

\* content.length > 500 in detectFallbackContent
SubstantialRealLength == 500
\* content.length < 200 in detectFallbackContent
TooShortLength == 200
\* length > 400 in calculateQualityMetrics
SubstantialLength == 400
\* length / 800 in calculateQualityMetrics
PerfectLength == 800

\* the phrases tested by hasSubstantialRealContent
realContentPhrases ==
    <<"best practices", "guideline", "accessibility", "consider", "ensure", "avoid">>

\* the phrases tested by hasGuidelines
guidelinePhrases ==
    <<"best practices", "guideline", "consider", "avoid", "should", "when">>

\* list.some(p => text.includes(p))
SomeIncluded(list, text) == \E k \in 1..Len(list) : includes(text, list[k])

\* a faulty variant of hasSubstantialRealContent: the phrase test left out
hasSubstantialRealContentByLength(content) == Len(content) > SubstantialRealLength

hasSubstantialRealContent(content) ==
    Len(content) > SubstantialRealLength
    /\ SomeIncluded(realContentPhrases, toLowerCase(content))

\* a faulty variant of detectFallbackContent: the indicators looked for in
\* the original text alone
detectFallbackContentInOriginal(content, originalContent) ==
    LET contentLower == toLowerCase(content)
        originalLower ==
            IF originalContent = NoValue \/ originalContent = ""
            THEN contentLower ELSE toLowerCase(originalContent)
        hasFallbackIndicators ==
            \E k \in 1..Len(fallbackIndicators) :
                includes(originalLower, fallbackIndicators[k])
        isTooShort == Len(content) < TooShortLength
        hasOnlySPAIndicators ==
            \E k \in 1..Len(appleSPAIndicators) :
                includes(originalLower, appleSPAIndicators[k])
        hasJavaScriptIssues ==
            includes(originalLower, "javascript")
            /\ (includes(originalLower, "required") \/ includes(originalLower, "turn on"))
    IN IF hasSubstantialRealContent(content) THEN FALSE
       ELSE hasFallbackIndicators
            \/ (hasJavaScriptIssues /\ ~hasSubstantialRealContent(content))
            \/ (isTooShort /\ hasOnlySPAIndicators)

detectFallbackContent(content, originalContent) ==
    LET contentLower == toLowerCase(content)
        \* originalContent?.toLowerCase() || contentLower
        originalLower ==
            IF originalContent = NoValue \/ originalContent = ""
            THEN contentLower ELSE toLowerCase(originalContent)
        hasFallbackIndicators ==
            \E k \in 1..Len(fallbackIndicators) :
                includes(contentLower, fallbackIndicators[k])
                \/ includes(originalLower, fallbackIndicators[k])
        isTooShort == Len(content) < TooShortLength
        hasOnlySPAIndicators ==
            \E k \in 1..Len(appleSPAIndicators) :
                includes(contentLower, appleSPAIndicators[k])
                \/ includes(originalLower, appleSPAIndicators[k])
        hasJavaScriptIssues ==
            (includes(contentLower, "javascript") \/ includes(originalLower, "javascript"))
            /\ (includes(contentLower, "required") \/ includes(contentLower, "turn on")
                \/ includes(originalLower, "required") \/ includes(originalLower, "turn on"))
    IN IF hasSubstantialRealContent(content) THEN FALSE
       ELSE hasFallbackIndicators
            \/ (hasJavaScriptIssues /\ ~hasSubstantialRealContent(content))
            \/ (isTooShort /\ hasOnlySPAIndicators)

\* the regex of headingCount: the length of the run of # that starts line-initially at i
HeadingMarkAt(s, i) ==
    IF LineStart(s, i) /\ Ch(s, i) = "#" THEN RunEnd(s, {"#"}, i) - i + 1 ELSE -1

\* the regex /(fence)/g of codeExamplesCount
FenceAt(s, i) == IF StartsAt(s, Fence, i) THEN 3 ELSE -1

\* the regex of imageReferencesCount: "![", then up to the first "]" on the line
ImageRefAt(s, i) ==
    LET close == IndexOf(s, "]", i + 2)
        nl == IndexOf(s, "\n", i + 2)
    IN IF StartsAt(s, "![", i) /\ close # 0 /\ (nl = 0 \/ close < nl)
       THEN close - i + 1 ELSE -1

\* Math.min(1.0, x)
ClampOne(x) == Min(ScoreUnit, x)

\* a faulty variant of NormalScore: the weights of the length score and of
\* the guideline score exchanged
NormalScoreSwappedWeights(length, structureScore, appleTermsScore, guidelineScore, structureBonus) ==
    LET lengthScore == ClampOne((length * ScoreUnit) \div PerfectLength)
    IN (lengthScore * 35 + structureScore * 15 + appleTermsScore * 15
        + guidelineScore * 20 + structureBonus * 15) \div 100

\* a faulty variant of NormalScore: the bonus added without its weight
NormalScoreUnweightedBonus(length, structureScore, appleTermsScore, guidelineScore, structureBonus) ==
    LET lengthScore == ClampOne((length * ScoreUnit) \div PerfectLength)
    IN (lengthScore * 20 + structureScore * 15 + appleTermsScore * 15
        + guidelineScore * 35 + structureBonus * 100) \div 100

\* the score of the third branch
NormalScore(length, structureScore, appleTermsScore, guidelineScore, structureBonus) ==
    LET lengthScore == ClampOne((length * ScoreUnit) \div PerfectLength)
    IN (lengthScore * 20 + structureScore * 15 + appleTermsScore * 15
        + guidelineScore * 35 + structureBonus * 15) \div 100

\* score of the fallback branch (0.1) and of the SPA branch (0.3)
FallbackScore == ScoreUnit \div 10
SPAIssueScore == (3 * ScoreUnit) \div 10

\* a faulty variant of Confidence: the increment subtracted
ConfidenceLowered(isFallbackContent, score) ==
    IF isFallbackContent THEN ScoreUnit \div 10 ELSE ClampOne(score - ScoreUnit \div 10)

\* a faulty variant of Confidence: the fallback case left out
ConfidenceUnconditional(isFallbackContent, score) == ClampOne(score + ScoreUnit \div 10)

\* confidence: isFallbackContent ? 0.1 : Math.min(1.0, score + 0.1)
Confidence(isFallbackContent, score) ==
    IF isFallbackContent THEN ScoreUnit \div 10 ELSE ClampOne(score + ScoreUnit \div 10)

\* (content.match(re) || []) of headingCount, codeExamplesCount and
\* imageReferencesCount
headingMatches(content) == OrEmpty(match(HeadingMarkAt, content))
fenceMatches(content) == OrEmpty(match(FenceAt, content))
imageMatches(content) == OrEmpty(match(ImageRefAt, content))

\* reading the length of null raises a TypeError
calculateQualityMetricsThrows(content) ==
    \/ headingMatches(content).isNull
    \/ fenceMatches(content).isNull
    \/ imageMatches(content).isNull

calculateQualityMetrics(content, originalContent) ==
    LET length == Len(content)
        lower == toLowerCase(content)
        headingCount == headingMatches(content).length
        \* codeExamplesCount is fenceCount / 2; kept as the numerator
        fenceCount == fenceMatches(content).length
        imageReferencesCount == imageMatches(content).length
        isFallbackContent == detectFallbackContent(content, originalContent)
        hasAppleSPAIssues == SomeIncluded(appleSPAIndicators, lower)
        \* headingCount * 0.1 + (fenceCount / 2) * 0.2
        structureScore ==
            ClampOne(headingCount * (ScoreUnit \div 10) + fenceCount * (ScoreUnit \div 10))
        appleTermsFound ==
            Cardinality({k \in 1..Len(appleDesignTerms) : includes(lower, appleDesignTerms[k])})
        appleTermsScore == ClampOne((appleTermsFound * ScoreUnit) \div 10)
        hasSubstantialContent == length > SubstantialLength
        hasGuidelines == SomeIncluded(guidelinePhrases, lower)
        guidelineScore == IF hasGuidelines THEN (4 * ScoreUnit) \div 10 ELSE 0
        structureBonus == IF headingCount >= 2 THEN (2 * ScoreUnit) \div 10 ELSE 0
        score ==
            IF isFallbackContent THEN FallbackScore
            ELSE IF hasAppleSPAIssues /\ ~hasSubstantialContent THEN SPAIssueScore
            ELSE NormalScore(length, structureScore, appleTermsScore,
                             guidelineScore, structureBonus)
    IN [score |-> ClampOne(score),
        length |-> length,
        structureScore |-> structureScore,
        appleTermsScore |-> appleTermsScore,
        codeFenceCount |-> fenceCount,
        imageReferencesCount |-> imageReferencesCount,
        headingCount |-> headingCount,
        isFallbackContent |-> isFallbackContent,
        extractionMethod |-> "turndown-enhanced",
        confidence |-> Confidence(isFallbackContent, score)]

(***************************************************************************)
(* generateFrontMatter.                                                    *)
(***************************************************************************)

\* String(Math.round(score * 100) / 100): the score rounded to hundredths, in
\* the shortest decimal notation
RoundedScoreText(score) ==
    LET h == (score * 100 + ScoreUnit \div 2) \div ScoreUnit
    IN IF h % 100 = 0 THEN ToString(h \div 100)
       ELSE IF h % 10 = 0 THEN ToString(h \div 100) \o "." \o ToString((h % 100) \div 10)
       ELSE IF h % 100 < 10 THEN ToString(h \div 100) \o ".0" \o ToString(h % 100)
       ELSE ToString(h \div 100) \o "." \o ToString(h % 100)

\* JSON.stringify of a string: quotes around it, a backslash before each
\* quote and backslash, and the two-character escapes of the control
\* characters
JsonString(s) ==
    "\"" \o Build(LAMBDA k : CASE Ch(s, k) \in {"\"", "\\"} -> "\\" \o Ch(s, k)
                              [] Ch(s, k) = "\n" -> "\\n"
                              [] Ch(s, k) = "\r" -> "\\r"
                              [] Ch(s, k) = "\t" -> "\\t"
                              [] Ch(s, k) = "\f" -> "\\f"
                              [] OTHER -> Ch(s, k),
                  1, Len(s)) \o "\""

\* JSON.stringify of an array of strings
JsonArray(seq) ==
    "[" \o Build(LAMBDA k : (IF k > 1 THEN "," ELSE "") \o JsonString(seq[k]), 1, Len(seq))
    \o "]"

\* String(value) of a boolean
BooleanText(b) == IF b THEN "true" ELSE "false"

\* now is new Date().toISOString() at the time of the call
generateFrontMatter(sec, q, kw, now) ==
    "---\n"
    \o "title: " \o sec.title \o "\n"
    \o "platform: " \o sec.platform \o "\n"
    \o "category: " \o sec.category \o "\n"
    \o "url: " \o sec.url \o "\n"
    \o "quality_score: " \o RoundedScoreText(q.score) \o "\n"
    \o "content_length: " \o ToString(q.length) \o "\n"
    \o "last_updated: " \o now \o "\n"
    \o "keywords: " \o JsonArray(kw) \o "\n"
    \o "has_code_examples: " \o BooleanText(q.codeFenceCount > 0) \o "\n"
    \o "has_images: " \o BooleanText(q.imageReferencesCount > 0) \o "\n"
    \o "is_fallback: " \o BooleanText(q.isFallbackContent)
    \o "\n---\n\n"

(***************************************************************************)
(* Inputs of the quality specification: a cleaned text is a lead (headings,*)
(* scrape artifacts, fences) followed by 0..MaxRepeat copies of a body     *)
(* sentence; the pre-normalization text is absent, empty, the cleaned text *)
(* itself, or the cleaned text behind the JavaScript banner.               *)
(***************************************************************************)
MaxRepeat == 6

RECURSIVE Repeat(_, _)
Repeat(s, k) ==
    IF k <= 0 THEN "" ELSE IF k = 1 THEN s
    ELSE Repeat(s, k \div 2) \o Repeat(s, k - (k \div 2))

JavaScriptBanner ==
    "This page requires JavaScript. Please turn on JavaScript in your browser and refresh the page to view its content."

QualityLeads ==
    {"",
     "# Buttons\n\n",
     "# Layout\n\n## Overview\n\n### Color\n\n",
     "Current page is Buttons ",
     "JavaScript is required. ",
     "Loading... ",
     "![icon] " \o Fence \o "\nlet x = 1\n" \o Fence \o "\n",
     "## Change log\n\n",
     \* ten headings and ten design terms
     "# Accessibility\n\n## Animation\n\n## Branding\n\n## Buttons\n\n## Color\n\n## Controls\n\n## Design\n\n## Feedback\n\n## Gestures\n\n## Haptics\n\nConsider how each of these topics applies when people use the app on every device they own.\n\n"}

QualityBodies ==
    {"People expect apps to respond quickly to every touch on the screen they see here. ",
     "Consider the visual design of controls and avoid tiny icons in a dense layout grid. ",
     "Ensure that every label stays legible at the sizes people pick. ",
     "A button should look tappable at a glance. ",
     \* exactly 100 characters
     "0123456789012345678901234567890123456789012345678901234567890123456789012345678901234567890123456789"}

QualityOriginals(content) ==
    {NoValue, "", content, JavaScriptBanner \o "\n\n" \o content,
     "Buttons start actions. Earlier copy of the page."}

InitQuality ==
    /\ pc = "quality"
    /\ html = NoValue
    /\ section = NoSection
    /\ cleanedHtml = NoValue
    /\ \E lead \in QualityLeads, body \in QualityBodies, k \in 0..MaxRepeat :
          /\ cleanedMarkdown = lead \o Repeat(body, k)
          /\ rawMarkdown \in QualityOriginals(cleanedMarkdown)
    /\ keywords = NoList
    /\ relatedSections = NoList
    /\ quality = NoQuality
    /\ frontMatter = NoValue

\* one call calculateQualityMetrics(content, originalContent)
CalculateQualityMetricsCall ==
    /\ pc = "quality"
    /\ quality' = calculateQualityMetrics(cleanedMarkdown, rawMarkdown)
    /\ pc' = "qualityDone"
    /\ UNCHANGED <<html, section, cleanedHtml, rawMarkdown, cleanedMarkdown,
                   keywords, relatedSections, frontMatter>>

NextQuality == CalculateQualityMetricsCall

SpecQuality == InitQuality /\ [][NextQuality]_vars

(***************************************************************************)
(* Inputs of the normalizer specification: a raw Markdown text is the      *)
(* concatenation of at most MaxPieces pieces.                              *)
(***************************************************************************)
MaxPieces == 2

MarkdownPieces ==
    {"# Button\n\n",
     "## Overview\n\n",
     "Use buttons to start actions.\n",
     "helloWorld and fooBarBaz ",
     "skip skip navigation navigation ",
     "skipNavigation ",
     "[x[y]()]() ",
     "* first\n+ second\n",
     "pushbutton radios Alerting ",
     "Current page is Buttons ",
     "Supported platforms iOS",
     "v2Beta.Next step?Yes ",
     "a  b \n\n\n\nc",
     "#\n",
     "See also: [Sliders] [Pickers]\n"}

RECURSIVE Concatenations(_, _)
Concatenations(pieces, n) ==
    IF n = 0 THEN {""}
    ELSE LET shorter == Concatenations(pieces, n - 1)
         IN shorter \cup {s \o p : s \in shorter, p \in pieces}

InitMarkdown ==
    /\ pc = "clean"
    /\ html = NoValue
    /\ section = NoSection
    /\ cleanedHtml = NoValue
    /\ rawMarkdown \in Concatenations(MarkdownPieces, MaxPieces)
    /\ cleanedMarkdown = NoValue
    /\ keywords = NoList
    /\ relatedSections = NoList
    /\ quality = NoQuality
    /\ frontMatter = NoValue

\* one call cleanMarkdown(rawMarkdown)
CleanMarkdownCall ==
    /\ pc = "clean"
    /\ cleanedMarkdown' = cleanMarkdown(rawMarkdown)
    /\ pc' = "cleaned"
    /\ UNCHANGED <<html, section, cleanedHtml, rawMarkdown, keywords,
                   relatedSections, quality, frontMatter>>

\* the normalizer run on its own output: rawMarkdown keeps the first result
CleanMarkdownAgain ==
    /\ pc = "cleaned"
    /\ rawMarkdown' = cleanedMarkdown
    /\ cleanedMarkdown' = cleanMarkdown(cleanedMarkdown)
    /\ pc' = "recleaned"
    /\ UNCHANGED <<html, section, cleanedHtml, keywords, relatedSections,
                   quality, frontMatter>>

NextMarkdown == CleanMarkdownCall \/ CleanMarkdownAgain

SpecMarkdown == InitMarkdown /\ [][NextMarkdown]_vars

(***************************************************************************)
(* Inputs of the repair specification: a text is the concatenation of at   *)
(* most MaxPieces pieces; fixWordConcatenation is called on it.            *)
(***************************************************************************)
RepairPieces ==
    {"helloWorld", "fooBarBaz", " and ", "iPhone. ", "Tap here.Next", "ok!Go?Yes ",
     "v2Beta", "shinybutton", "AlertView", "x", "Open the iOS app", "mybutton",
     "radios", "VoiceOver, "}

InitRepair ==
    /\ pc = "fixWordConcatenation"
    /\ html = NoValue
    /\ section = NoSection
    /\ cleanedHtml = NoValue
    /\ rawMarkdown \in Concatenations(RepairPieces, MaxPieces)
    /\ cleanedMarkdown = NoValue
    /\ keywords = NoList
    /\ relatedSections = NoList
    /\ quality = NoQuality
    /\ frontMatter = NoValue

\* one call fixWordConcatenation(content), the content kept in rawMarkdown
\* and the result in cleanedMarkdown
FixWordConcatenationCall ==
    /\ pc = "fixWordConcatenation"
    /\ cleanedMarkdown' = fixWordConcatenation(rawMarkdown)
    /\ pc' = "fixed"
    /\ UNCHANGED <<html, section, cleanedHtml, rawMarkdown, keywords,
                   relatedSections, quality, frontMatter>>

SpecRepair == InitRepair /\ [][FixWordConcatenationCall]_vars

(***************************************************************************)
(* processContent: one call on an html text and a section.  The html text  *)
(* is the concatenation of at most MaxFragments fragments; the fragments   *)
(* hold well-formed elements, an unclosed element, a stray end tag, a lone *)
(* "<", text without markup and the JavaScript banner.                     *)
(***************************************************************************)
MaxFragments == 2

ButtonParagraph ==
    "<p>Use buttons to let people take actions. Best practices: avoid tiny targets and consider touch target size.</p>"

HtmlFragments ==
    <<"<nav>Skip</nav>",
      "<h1>Button</h1>" \o ButtonParagraph,
      JavaScriptBanner,
      "<h2>Best practices</h2>\n",
      "<div class=\"main content\"><p>See also: <a href=\"/layout\">Layout</a>, <a href=\"/color\">Color</a>, <a href=\"/icons\">Icons</a>, <a href=\"/layout\">Layout</a>, <a href=\"/motion\">Motion</a>, <a href=\"/images\">Images</a>, <a href=\"/status\">Status</a></p></div>",
      "<p>Unclosed <code>let x</code> and </div>stray < text",
      "<nav class=\"navigation\">\nHome\n</nav><span class='breadcrumb'>Home</span><img src=\"a.png\">",
      "<p>Accessibility animation branding buttons color controls design feedback gestures haptics icons images input interface layout materials motion navigation presentation selection status.</p>",
      "Plain text"
    >>

HtmlInputs ==
    UNION {{Build(LAMBDA k : HtmlFragments[f[k]], 1, n) : f \in [1..n -> 1..Len(HtmlFragments)]}
           : n \in 0..MaxFragments}

Sections ==
    {[title |-> "Buttons", platform |-> "iOS", category |-> "visual-design",
      url |-> "https://developer.apple.com/design/human-interface-guidelines/buttons"],
     [title |-> "Layout", platform |-> "universal", category |-> "layout",
      url |-> "https://developer.apple.com/design/human-interface-guidelines/layout"],
     [title |-> "visionOS", platform |-> "visionOS", category |-> "platforms",
      url |-> "https://developer.apple.com/design/human-interface-guidelines/designing-for-visionos"]}

\* values of new Date().toISOString()
Timestamps == {"2025-07-20T03:44:53.933Z", "2025-07-21T10:00:00.000Z"}

Init ==
    /\ pc = "cleanHtml"
    /\ html \in HtmlInputs
    /\ section \in Sections
    /\ cleanedHtml = NoValue
    /\ rawMarkdown = NoValue
    /\ cleanedMarkdown = NoValue
    /\ keywords = NoList
    /\ relatedSections = NoList
    /\ quality = NoQuality
    /\ frontMatter = NoValue

\* const cleanedHtml = this.cleanHtml(html)
CleanHtml ==
    /\ pc = "cleanHtml"
    /\ cleanedHtml' = cleanHtml(html)
    /\ pc' = "turndown"
    /\ UNCHANGED <<html, section, rawMarkdown, cleanedMarkdown, keywords,
                   relatedSections, quality, frontMatter>>

\* const rawMarkdown = this.turndown.turndown(cleanedHtml)
Turndown ==
    /\ pc = "turndown"
    /\ rawMarkdown' = turndown(cleanedHtml)
    /\ pc' = "cleanMarkdown"
    /\ UNCHANGED <<html, section, cleanedHtml, cleanedMarkdown, keywords,
                   relatedSections, quality, frontMatter>>

\* const cleanedMarkdown = this.cleanMarkdown(rawMarkdown)
CleanMarkdown ==
    /\ pc = "cleanMarkdown"
    /\ cleanedMarkdown' = cleanMarkdown(rawMarkdown)
    /\ pc' = "extractKeywords"
    /\ UNCHANGED <<html, section, cleanedHtml, rawMarkdown, keywords,
                   relatedSections, quality, frontMatter>>

\* const keywords = this.extractKeywords(cleanedMarkdown, section)
ExtractKeywords ==
    /\ pc = "extractKeywords"
    /\ IF extractKeywordsThrows(cleanedMarkdown)
       THEN pc' = "threw" /\ UNCHANGED keywords
       ELSE /\ keywords' = extractKeywords(cleanedMarkdown, section)
            /\ pc' = "extractRelatedSections"
    /\ UNCHANGED <<html, section, cleanedHtml, rawMarkdown, cleanedMarkdown,
                   relatedSections, quality, frontMatter>>

\* const relatedSections = this.extractRelatedSections(cleanedMarkdown, section)
ExtractRelatedSections ==
    /\ pc = "extractRelatedSections"
    /\ IF extractRelatedSectionsThrows(cleanedMarkdown)
       THEN pc' = "threw" /\ UNCHANGED relatedSections
       ELSE /\ relatedSections' = extractRelatedSections(cleanedMarkdown)
            /\ pc' = "calculateQualityMetrics"
    /\ UNCHANGED <<html, section, cleanedHtml, rawMarkdown, cleanedMarkdown,
                   keywords, quality, frontMatter>>

\* a faulty variant of CalculateQualityMetrics: the cleaned text passed as
\* the original as well
CalculateQualityMetricsOnCleaned ==
    /\ pc = "calculateQualityMetrics"
    /\ quality' = calculateQualityMetrics(cleanedMarkdown, cleanedMarkdown)
    /\ pc' = "generateFrontMatter"
    /\ UNCHANGED <<html, section, cleanedHtml, rawMarkdown, cleanedMarkdown,
                   keywords, relatedSections, frontMatter>>

\* const quality = this.calculateQualityMetrics(cleanedMarkdown, rawMarkdown)
CalculateQualityMetrics ==
    /\ pc = "calculateQualityMetrics"
    /\ IF calculateQualityMetricsThrows(cleanedMarkdown)
       THEN pc' = "threw" /\ UNCHANGED quality
       ELSE /\ quality' = calculateQualityMetrics(cleanedMarkdown, rawMarkdown)
            /\ pc' = "generateFrontMatter"
    /\ UNCHANGED <<html, section, cleanedHtml, rawMarkdown, cleanedMarkdown,
                   keywords, relatedSections, frontMatter>>

\* const frontMatter = this.generateFrontMatter(section, quality, keywords);
\* return {...}
GenerateFrontMatter ==
    /\ pc = "generateFrontMatter"
    /\ \E now \in Timestamps :
           frontMatter' = generateFrontMatter(section, quality, keywords, now)
    /\ pc' = "done"
    /\ UNCHANGED <<html, section, cleanedHtml, rawMarkdown, cleanedMarkdown,
                   keywords, relatedSections, quality>>

Next ==
    \/ CleanHtml
    \/ Turndown
    \/ CleanMarkdown
    \/ ExtractKeywords
    \/ ExtractRelatedSections
    \/ CalculateQualityMetrics
    \/ GenerateFrontMatter

Spec == Init /\ [][Next]_vars

(***************************************************************************)
(* processContent on pages with code and image elements.  A code element   *)
(* is converted by the rule preserveCode, which puts one code mark on      *)
(* either side of its text; the text of a code element is not escaped.     *)
(***************************************************************************)
ElementPages ==
    {"<p>Wrap code in <code>" \o CodeMark \o "</code> marks.</p>",
     "<p>Open with <code>" \o CodeMark \o "</code> and close with <code>" \o CodeMark
         \o "</code>.</p>",
     "<h1>Code</h1><p>Call <code>view.show()</code> first.</p>",
     "<p>Tap the button.</p><img src=\"x.png\">Some text</img><p>Then wait.</p>",
     "<p>Before <img src=\"x.png\" alt=\"An icon\">Some text</img> after.</p>",
     "<div class=\"content\"><img src=\"a.png\"><img src=\"b.png\"></div><p>Below the images.</p>",
     "<p>Intro.</p><div class=\"breadcrumb\">Home</div>",
     "<div class=\"top navigation bar\"><p>Guides</p></div><p>Outro.</p>",
     "<p>Intro.</p><span class='navigation'>Sitemap</span><p>Outro.</p>"}

\* sections whose title holds ": " or a line break
ElementSections ==
    Sections
    \cup {[title |-> "Buttons: Overview", platform |-> "iOS", category |-> "visual-design",
           url |-> "https://developer.apple.com/design/human-interface-guidelines/buttons"],
          [title |-> "Tab\nbars", platform |-> "iOS", category |-> "navigation",
           url |-> "https://developer.apple.com/design/human-interface-guidelines/tab-bars"]}

InitElements ==
    /\ pc = "cleanHtml"
    /\ html \in ElementPages
    /\ section \in ElementSections
    /\ cleanedHtml = NoValue
    /\ rawMarkdown = NoValue
    /\ cleanedMarkdown = NoValue
    /\ keywords = NoList
    /\ relatedSections = NoList
    /\ quality = NoQuality
    /\ frontMatter = NoValue

SpecElements == InitElements /\ [][Next]_vars

(***************************************************************************)
(* Two calls of processContent on one service instance.  The consts of a   *)
(* call (cleanedHtml, rawMarkdown, ...) are locals of that call, so every  *)
(* variable holds one value per call here: pc[c], html[c], ...  The fields *)
(* of the instance (converter, vocabularies) are assigned in the           *)
(* constructor and by no method.  A step is one statement of one call; the *)
(* steps of the two calls come in any order, which covers calls made one   *)
(* after the other as well.  The clock read by generateFrontMatter does not*)
(* run backwards.                                                          *)
(***************************************************************************)
Calls == {1, 2}

\* the page of the worked example and the banner page
CallPages == {HtmlFragments[1] \o HtmlFragments[2], JavaScriptBanner}

CallSections == {s \in Sections : s.title \in {"Buttons", "Layout"}}

\* timestamp a is earlier than timestamp b (ISO texts of one length)
IsBefore(a, b) ==
    LET k == FirstIdx(LAMBDA i : Ch(a, i) # Ch(b, i), 1, Len(a))
    IN k # 0 /\ IndexOf(DigitStr, Ch(a, k), 1) < IndexOf(DigitStr, Ch(b, k), 1)

\* the values that a clock read can return when the texts in written hold
\* the values read before
ClockReads(written) ==
    {now \in Timestamps :
        \A fm \in written, u \in Timestamps : includes(fm, u) => ~IsBefore(now, u)}

InitCalls ==
    /\ pc = [c \in Calls |-> "cleanHtml"]
    /\ html \in [Calls -> CallPages]
    /\ section \in [Calls -> CallSections]
    /\ cleanedHtml = [c \in Calls |-> NoValue]
    /\ rawMarkdown = [c \in Calls |-> NoValue]
    /\ cleanedMarkdown = [c \in Calls |-> NoValue]
    /\ keywords = [c \in Calls |-> NoList]
    /\ relatedSections = [c \in Calls |-> NoList]
    /\ quality = [c \in Calls |-> NoQuality]
    /\ frontMatter = [c \in Calls |-> NoValue]

\* a faulty variant of StoreRawMarkdown: the result kept in a field of the
\* instance, which all calls share
StoreRawMarkdownInField(c, r) == [k \in Calls |-> r]

\* const rawMarkdown = ...: the result is a local of call c
StoreRawMarkdown(c, r) == [rawMarkdown EXCEPT ![c] = r]

\* the next statement of call c
CallStep(c) ==
    /\ pc[c] \notin {"done", "threw"}
    /\ LET Goto(stage) == pc' = [pc EXCEPT ![c] = stage]
       IN CASE pc[c] = "cleanHtml" ->
                 /\ cleanedHtml' = [cleanedHtml EXCEPT ![c] = cleanHtml(html[c])]
                 /\ Goto("turndown")
                 /\ UNCHANGED <<rawMarkdown, cleanedMarkdown, keywords, relatedSections,
                                quality, frontMatter>>
            [] pc[c] = "turndown" ->
                 /\ rawMarkdown' = StoreRawMarkdown(c, turndown(cleanedHtml[c]))
                 /\ Goto("cleanMarkdown")
                 /\ UNCHANGED <<cleanedHtml, cleanedMarkdown, keywords, relatedSections,
                                quality, frontMatter>>
            [] pc[c] = "cleanMarkdown" ->
                 /\ cleanedMarkdown' =
                        [cleanedMarkdown EXCEPT ![c] = cleanMarkdown(rawMarkdown[c])]
                 /\ Goto("extractKeywords")
                 /\ UNCHANGED <<cleanedHtml, rawMarkdown, keywords, relatedSections,
                                quality, frontMatter>>
            [] pc[c] = "extractKeywords" ->
                 /\ IF extractKeywordsThrows(cleanedMarkdown[c])
                    THEN Goto("threw") /\ UNCHANGED keywords
                    ELSE /\ keywords' = [keywords EXCEPT ![c] =
                                            extractKeywords(cleanedMarkdown[c], section[c])]
                         /\ Goto("extractRelatedSections")
                 /\ UNCHANGED <<cleanedHtml, rawMarkdown, cleanedMarkdown, relatedSections,
                                quality, frontMatter>>
            [] pc[c] = "extractRelatedSections" ->
                 /\ IF extractRelatedSectionsThrows(cleanedMarkdown[c])
                    THEN Goto("threw") /\ UNCHANGED relatedSections
                    ELSE /\ relatedSections' = [relatedSections EXCEPT ![c] =
                                                   extractRelatedSections(cleanedMarkdown[c])]
                         /\ Goto("calculateQualityMetrics")
                 /\ UNCHANGED <<cleanedHtml, rawMarkdown, cleanedMarkdown, keywords,
                                quality, frontMatter>>
            [] pc[c] = "calculateQualityMetrics" ->
                 /\ IF calculateQualityMetricsThrows(cleanedMarkdown[c])
                    THEN Goto("threw") /\ UNCHANGED quality
                    ELSE /\ quality' = [quality EXCEPT ![c] =
                                           calculateQualityMetrics(cleanedMarkdown[c],
                                                                   rawMarkdown[c])]
                         /\ Goto("generateFrontMatter")
                 /\ UNCHANGED <<cleanedHtml, rawMarkdown, cleanedMarkdown, keywords,
                                relatedSections, frontMatter>>
            [] pc[c] = "generateFrontMatter" ->
                 /\ \E now \in ClockReads({frontMatter[k] : k \in Calls}) :
                        frontMatter' = [frontMatter EXCEPT ![c] =
                            generateFrontMatter(section[c], quality[c], keywords[c], now)]
                 /\ Goto("done")
                 /\ UNCHANGED <<cleanedHtml, rawMarkdown, cleanedMarkdown, keywords,
                                relatedSections, quality>>
    /\ UNCHANGED <<html, section>>

NextCalls == \E c \in Calls : CallStep(c)

SpecCalls == InitCalls /\ [][NextCalls]_vars

\* the values of pc
Stages ==
    {"cleanHtml", "turndown", "cleanMarkdown", "extractKeywords", "extractRelatedSections",
     "calculateQualityMetrics", "generateFrontMatter", "done", "threw"}

\* a step of a call that has neither returned nor thrown: every action of
\* Next is such a step and changes pc
Advance == pc \notin {"done", "threw"} /\ pc' \in Stages

\* the call is not suspended for ever: processContent awaits nothing, so a
\* call that has neither returned nor thrown takes its next step
FairSpec == Spec /\ WF_pc(Advance)

\* the values of pc at which each result of the call is available
HasCleanedMarkdown ==
    pc \in {"extractKeywords", "extractRelatedSections", "calculateQualityMetrics",
            "generateFrontMatter", "done"}
HasKeywords ==
    pc \in {"extractRelatedSections", "calculateQualityMetrics", "generateFrontMatter", "done"}
HasRelatedSections == pc \in {"calculateQualityMetrics", "generateFrontMatter", "done"}
HasQuality == pc \in {"qualityDone", "generateFrontMatter", "done"}

\* no element of the sequence occurs twice
NoDuplicates(seq) == \A i, j \in 1..Len(seq) : i # j => seq[i] # seq[j]

\* the text is one of the lines of md, with an empty line or the end of the
\* text on either side
PaddedLine(md, text) ==
    LET lines == SplitLines(md, 1)
    IN \E k \in 1..Len(lines) :
           /\ lines[k] = text
           /\ k = 1 \/ lines[k - 1] = ""
           /\ k = Len(lines) \/ lines[k + 1] = ""

\* a text without markup and without anything a pattern of the pipeline looks
\* for: words of letters, the first one capitalized, single spaces between
PlainText(s) ==
    /\ Len(s) > 0
    /\ Ch(s, 1) \in UpperChars
    /\ \A k \in 2..Len(s) :
           \/ Ch(s, k) \in LowerChars
           \/ Ch(s, k) = " " /\ Ch(s, k - 1) # " " /\ k < Len(s)
    /\ ~SomeIncluded(fallbackIndicators, toLowerCase(s))
    /\ ~SomeIncluded(appleSPAIndicators, toLowerCase(s))
    /\ \A k \in 1..Len(higTerms) : ~includes(toLowerCase(s), RemoveSpaces(higTerms[k]))

\* the input of the worked example: navigation, a heading and one paragraph
ButtonPage == "<nav>Skip</nav><h1>Button</h1>" \o ButtonParagraph

----------------------------------------------------------------------------
\* C1: every result of calculateQualityMetrics has 0 <= score <= 1 and
\* 0 <= confidence <= 1, in the fallback branch, the SPA-artifact branch and
\* the weighted-sum branch alike.
C1_ScoreAndConfidenceInUnitInterval ==
    HasQuality =>
        /\ 0 <= quality.score /\ quality.score <= ScoreUnit
        /\ 0 <= quality.confidence /\ quality.confidence <= ScoreUnit

\* a result of the weighted-sum branch with a score of zero: the lower bound
\* of the confidence is decided by the increment alone
C1_Witness ==
    /\ HasQuality
    /\ ~quality.isFallbackContent
    /\ quality.score = 0
    /\ quality.confidence > 0

\* C2: isFallbackContent is true exactly when score = 0.1 and confidence = 0.1.
C2_FallbackIffTenthTenth ==
    HasQuality =>
        (quality.isFallbackContent
            <=> (quality.score = ScoreUnit \div 10 /\ quality.confidence = ScoreUnit \div 10))

\* a fallback result on a text that is not short, and so flagged for its
\* indicators
C2_Witness ==
    /\ HasQuality
    /\ quality.isFallbackContent
    /\ quality.length > TooShortLength

\* C3: processContent is total.  No stage raises an error, the call returns
\* for every html text (empty, without markup, malformed), and a text in
\* which no pattern matches passes through the text stages unchanged.
C3_ProcessContentIsTotal ==
    /\ [](pc # "threw")
    /\ [](pc # "cleanHtml" /\ PlainText(html) => cleanedHtml = html)
    /\ [](HasCleanedMarkdown /\ PlainText(html)
            => rawMarkdown = html /\ cleanedMarkdown = html)
    /\ <>(pc = "done")

\* a call on malformed markup (an unclosed element, a stray end tag, a lone
\* "<") that has returned
C3_Witness ==
    /\ pc = "done"
    /\ includes(html, "</div>stray < text")
    /\ cleanedMarkdown # ""

\* C4: cleanMarkdown is idempotent: the normalizer applied to its own output
\* (kept in rawMarkdown) returns that output.
C4_NormalizerIdempotent ==
    pc = "recleaned" => cleanedMarkdown = rawMarkdown

\* C5: keywords has at most 20 entries, relatedSections at most 5, and no
\* entry occurs twice in either list.
C5_ListsCappedAndDistinct ==
    /\ HasKeywords => Len(keywords) <= 20 /\ NoDuplicates(keywords)
    /\ HasRelatedSections => Len(relatedSections) <= 5 /\ NoDuplicates(relatedSections)

\* both lists cut at their cap, for a section whose title and category
\* coincide and name a vocabulary word of the text
C5_Witness ==
    /\ HasRelatedSections
    /\ section.title = "Layout"
    /\ Len(keywords) = 20
    /\ Len(relatedSections) = 5
    /\ includes(toLowerCase(cleanedMarkdown), "layout")

\* C6: keywords starts with the lower-cased title, platform and category
\* (each once, in this order), however many vocabulary words follow.
C6_SeedsComeFirst ==
    HasKeywords =>
        LET t == toLowerCase(section.title)
            p == toLowerCase(section.platform)
            c == toLowerCase(section.category)
            seeds == <<t>> \o (IF p # t THEN <<p>> ELSE <<>>)
                           \o (IF c \notin {t, p} THEN <<c>> ELSE <<>>)
        IN /\ Len(keywords) >= Len(seeds)
           /\ SubSeq(keywords, 1, Len(seeds)) = seeds

\* three distinct seeds in front of a list that the cap cut
C6_Witness ==
    /\ HasKeywords
    /\ section.title = "Buttons"
    /\ Len(keywords) = 20
    /\ keywords[3] = "visual-design"

\* C7: the worked example scores above the 0.3 of SPA-artifact content.
C7_ButtonPageScoresAboveSPAIssue ==
    HasQuality /\ html = ButtonPage => 10 * quality.score > 3 * ScoreUnit

\* C8: a heading of the html text is one padded line of cleanedMarkdown: its
\* level marks, one space and its complete text.
C8_HeadingsKeptOnOneLine ==
    HasCleanedMarkdown /\ ~includes(html, JavaScriptBanner) =>
        /\ includes(html, "<h1>Button</h1>") => PaddedLine(cleanedMarkdown, "# Button")
        /\ includes(html, "<h2>Best practices</h2>")
               => PaddedLine(cleanedMarkdown, "## Best practices")

\* C9: for the JavaScript banner alone, cleanedMarkdown does not hold
\* "requires javascript", and the result is flagged as fallback with score 0.1.
C9_BannerOnlyIsFallback ==
    html = JavaScriptBanner =>
        /\ HasCleanedMarkdown => ~includes(toLowerCase(cleanedMarkdown), "requires javascript")
        /\ HasQuality => quality.isFallbackContent /\ 10 * quality.score = ScoreUnit

\* the banner was converted, stripped by the normalizer and detected in the
\* text from before the normalizer
C9_Witness ==
    /\ HasQuality
    /\ html = JavaScriptBanner
    /\ includes(toLowerCase(rawMarkdown), "requires javascript")
    /\ cleanedMarkdown = ""
    /\ quality.isFallbackContent

\* C10: a call whose cleaned Markdown is empty returns metrics flagged as
\* fallback, with score 0.1 and confidence 0.1.
C10_EmptyResultIsFallback ==
    HasQuality /\ cleanedMarkdown = "" =>
        /\ quality.isFallbackContent
        /\ 10 * quality.score = ScoreUnit
        /\ 10 * quality.confidence = ScoreUnit

\* the lower-cased texts that fallback detection reads: the cleaned text and
\* the text from before the normalizer, when the call has one
DetectionTexts ==
    {toLowerCase(cleanedMarkdown)}
    \cup (IF rawMarkdown \in {NoValue, ""} THEN {} ELSE {toLowerCase(rawMarkdown)})

\* the phrase occurs in the cleaned or in the pre-normalized text
OccursInTexts(p) == \E t \in DetectionTexts : includes(t, p)

\* C11: isFallbackContent is true exactly when the cleaned text is not
\* substantial real content (longer than 500 with one of six phrases) and
\* (a) a fallback phrase occurs in the cleaned or pre-normalized text, or
\* (b) "javascript" occurs there together with "required" or "turn on", or
\* (c) the cleaned text is shorter than 200 and an SPA-artifact phrase occurs.
C11_FallbackDetectionRule ==
    HasQuality =>
        LET cleaned == toLowerCase(cleanedMarkdown)
            substantial ==
                /\ Len(cleanedMarkdown) > 500
                /\ \E p \in {"best practices", "guideline", "accessibility", "consider",
                              "ensure", "avoid"} : includes(cleaned, p)
            explicit == \E p \in Range(fallbackIndicators) : OccursInTexts(p)
            javaScript ==
                OccursInTexts("javascript")
                /\ (OccursInTexts("required") \/ OccursInTexts("turn on"))
            shortArtifact ==
                /\ Len(cleanedMarkdown) < 200
                /\ \E p \in Range(appleSPAIndicators) : OccursInTexts(p)
        IN quality.isFallbackContent
               <=> (~substantial /\ (explicit \/ javaScript \/ shortArtifact))

\* substantial guidance behind a JavaScript warning in the pre-normalized
\* text: not fallback
C11_Witness ==
    /\ HasQuality
    /\ Len(cleanedMarkdown) > 500
    /\ includes(toLowerCase(cleanedMarkdown), "consider")
    /\ rawMarkdown # NoValue
    /\ includes(toLowerCase(rawMarkdown), "requires javascript")
    /\ ~quality.isFallbackContent

\* C12: the score follows a three-way decision: (1) fallback: score and
\* confidence are 0.1; (2) else an SPA-artifact phrase in the cleaned text
\* and length <= 400: score is 0.3; (3) else score is lengthScore * 0.2 +
\* structureScore * 0.15 + appleTermsScore * 0.15 + guidelineScore * 0.35 +
\* structureBonus * 0.15 with lengthScore = min(1, length / 800),
\* structureScore = min(1, headingCount * 0.1 + codeExamplesCount * 0.2),
\* appleTermsScore = min(1, termsFound / 10), guidelineScore 0 or 0.4 and
\* structureBonus = 0.2 iff headingCount >= 2; in (2) and (3) confidence is
\* min(1, score + 0.1).
C12_ScoreDecision ==
    HasQuality =>
        LET lower == toLowerCase(cleanedMarkdown)
            length == Len(cleanedMarkdown)
            artifact == \E p \in Range(appleSPAIndicators) : includes(lower, p)
            termsFound == Cardinality({p \in Range(appleDesignTerms) : includes(lower, p)})
            lengthScore == Min(ScoreUnit, (length * ScoreUnit) \div 800)
            \* codeExamplesCount * 0.2 is a tenth per fence
            structure ==
                Min(ScoreUnit, (quality.headingCount * ScoreUnit) \div 10
                               + (quality.codeFenceCount * ScoreUnit) \div 10)
            terms == Min(ScoreUnit, (termsFound * ScoreUnit) \div 10)
            bonus == IF quality.headingCount >= 2 THEN (2 * ScoreUnit) \div 10 ELSE 0
        IN IF quality.isFallbackContent
           THEN 10 * quality.score = ScoreUnit /\ 10 * quality.confidence = ScoreUnit
           ELSE /\ IF artifact /\ length <= 400
                   THEN 10 * quality.score = 3 * ScoreUnit
                   ELSE /\ quality.structureScore = structure
                        /\ quality.appleTermsScore = terms
                        /\ \E g \in {0, (4 * ScoreUnit) \div 10} :
                               100 * quality.score =
                                   lengthScore * 20 + structure * 15 + terms * 15
                                   + g * 35 + bonus * 15
                /\ quality.confidence = Min(ScoreUnit, quality.score + ScoreUnit \div 10)

\* a text of 200 to 400 characters with an SPA-artifact phrase, not fallback
C12_Witness ==
    /\ HasQuality
    /\ ~quality.isFallbackContent
    /\ includes(toLowerCase(cleanedMarkdown), "current page is")
    /\ Len(cleanedMarkdown) \in 200..400
    /\ 10 * quality.score = 3 * ScoreUnit
    /\ 10 * quality.confidence = 4 * ScoreUnit

\* C13: guidelineScore is 0.4 exactly when the cleaned text contains one of
\* the six guideline-signal phrases of substantial real content (best
\* practices, guideline, accessibility, consider, ensure, avoid), and 0
\* otherwise; it enters the score of the weighted-sum branch with weight 0.35.
C13_GuidelineScoreBySignalPhrases ==
    LET lower == toLowerCase(cleanedMarkdown)
        length == Len(cleanedMarkdown)
        artifact == \E p \in Range(appleSPAIndicators) : includes(lower, p)
        signal == \E p \in {"best practices", "guideline", "accessibility", "consider",
                            "ensure", "avoid"} : includes(lower, p)
        guidelineScore == IF signal THEN (4 * ScoreUnit) \div 10 ELSE 0
        lengthScore == Min(ScoreUnit, (length * ScoreUnit) \div 800)
        bonus == IF quality.headingCount >= 2 THEN (2 * ScoreUnit) \div 10 ELSE 0
    IN HasQuality /\ ~quality.isFallbackContent /\ ~(artifact /\ length <= 400) =>
           100 * quality.score =
               lengthScore * 20 + quality.structureScore * 15
               + quality.appleTermsScore * 15 + guidelineScore * 35 + bonus * 15

\* C14: codeExamplesCount, the number of fences divided by two, is a whole
\* number for every cleaned text of the pipeline, and structureScore is a
\* multiple of 0.1.
C14_CodeExamplesCountIsWhole ==
    HasQuality =>
        /\ quality.codeFenceCount % 2 = 0
        /\ quality.structureScore % (ScoreUnit \div 10) = 0

\* C15: processContent is a pure function of its input: two calls with the
\* same (html, section), made at different times, return documents that are
\* equal in every field, frontMatter included.
C15_EqualInputsEqualDocuments ==
    pc = [c \in Calls |-> "done"] /\ html[1] = html[2] /\ section[1] = section[2] =>
        /\ cleanedMarkdown[1] = cleanedMarkdown[2]
        /\ quality[1] = quality[2]
        /\ keywords[1] = keywords[2]
        /\ relatedSections[1] = relatedSections[2]
        /\ frontMatter[1] = frontMatter[2]

\* C16: calls on one instance can be interleaved freely: each call's
\* cleanedMarkdown, quality, keywords and relatedSections are those of the
\* same call run alone, whatever the other call has done in between.
C16_InterleavedCallsAsAlone ==
    \A c \in Calls :
        pc[c] = "done" =>
            LET raw == turndown(cleanHtml(html[c]))
                cleaned == cleanMarkdown(raw)
            IN /\ cleanedMarkdown[c] = cleaned
               /\ quality[c] = calculateQualityMetrics(cleaned, raw)
               /\ keywords[c] = extractKeywords(cleaned, section[c])
               /\ relatedSections[c] = extractRelatedSections(cleaned)

\* a call on the banner page that has returned although the other call, on
\* another page, converted its text after this call had converted its own
C16_Witness ==
    /\ pc[1] = "done"
    /\ html[1] = JavaScriptBanner
    /\ html[2] = ButtonPage
    /\ pc[2] = "cleanMarkdown"
    /\ quality[1].isFallbackContent

\* the positions of s at which a lowercase letter stands immediately before
\* an uppercase letter
Boundaries(s) ==
    {i \in 1..Len(s) : Ch(s, i) \in LowerChars /\ Ch(s, i + 1) \in UpperChars}

\* the run of letters of s around position i
LetterRunAt(s, i) ==
    LET before == LastIdx(LAMBDA k : Ch(s, k) \notin LetterChars, 1, i)
    IN SubSeq(s, before + 1, RunEnd(s, LetterChars, i))

\* the word around position i holds a vocabulary term, written without spaces
TiedToTerm(s, i) ==
    \E k \in 1..Len(higTerms) :
        includes(toLowerCase(LetterRunAt(s, i)), toLowerCase(RemoveSpaces(higTerms[k])))

\* the lowercase letters that end at position i
LowerRunBefore(s, i) ==
    SubSeq(s, LastIdx(LAMBDA k : Ch(s, k) \notin LowerChars, 1, i) + 1, i)

\* the uppercase letter at position i and the lowercase letters behind it
CapitalizedAt(s, i) == SubSeq(s, i, RunEnd(s, LowerChars, i + 1))

\* C17: a text with a lowercase letter immediately before an uppercase
\* letter, at a boundary not tied to a vocabulary term, leaves the
\* word-concatenation repair with exactly one space at that boundary
\* ("helloWorld" gives "hello World", "fooBarBaz" gives "foo Bar Baz").
C17_BoundariesGetOneSpace ==
    pc = "fixed" =>
        /\ \A i \in Boundaries(rawMarkdown) :
               ~TiedToTerm(rawMarkdown, i) =>
                   LET left == LowerRunBefore(rawMarkdown, i)
                       right == CapitalizedAt(rawMarkdown, i + 1)
                   IN /\ includes(cleanedMarkdown, left \o " " \o right)
                      /\ ~includes(cleanedMarkdown, left \o right)
                      /\ ~includes(cleanedMarkdown, left \o "  " \o right)
        /\ includes(rawMarkdown, "helloWorld") /\ ~includes(rawMarkdown, "helloWorldAlert")
               => includes(cleanedMarkdown, "hello World")
        /\ rawMarkdown = "fooBarBaz" => cleanedMarkdown = "foo Bar Baz"

\* two boundaries in one word, each with its space after all passes
C17_Witness ==
    /\ pc = "fixed"
    /\ rawMarkdown = "helloWorldfooBarBaz"
    /\ cleanedMarkdown = "hello Worldfoo Bar Baz"

FrontMatterKeys ==
    <<"title", "platform", "category", "url", "quality_score", "content_length",
      "last_updated", "keywords", "has_code_examples", "has_images", "is_fallback">>

\* the number of hundredths written by the decimal text d ("0", "0.3",
\* "0.21", "1"), -1 when d is not such a text
HundredthsOf(d) ==
    LET Digit(c) == IndexOf(DigitStr, c, 1) - 1
    IN IF Len(d) = 1 /\ Ch(d, 1) \in DigitChars THEN 100 * Digit(d)
       ELSE IF Len(d) = 3 /\ Ch(d, 1) \in DigitChars /\ Ch(d, 2) = "."
               /\ Ch(d, 3) \in DigitChars
       THEN 100 * Digit(Ch(d, 1)) + 10 * Digit(Ch(d, 3))
       ELSE IF Len(d) = 4 /\ Ch(d, 1) \in DigitChars /\ Ch(d, 2) = "."
               /\ Ch(d, 3) \in DigitChars /\ Ch(d, 4) \in DigitChars
       THEN 100 * Digit(Ch(d, 1)) + 10 * Digit(Ch(d, 3)) + Digit(Ch(d, 4))
       ELSE -1

\* C19: the front matter is a "---" line, then exactly one "key: value" line
\* per field in the order title, platform, category, url, quality_score,
\* content_length, last_updated, keywords, has_code_examples, has_images,
\* is_fallback (11 lines), then a "---" line and an empty line, for every
\* section, also one whose title holds ": " or a line break; keywords is a
\* list literal and quality_score the score rounded to 2 decimals.
C19_FrontMatterOneLinePerField ==
    pc = "done" =>
        LET lines == SplitLines(frontMatter, 1)
            score == From(lines[6], Len("quality_score: ") + 1)
            list == From(lines[9], Len("keywords: ") + 1)
        IN /\ Len(lines) = Len(FrontMatterKeys) + 4
           /\ lines[1] = "---"
           /\ \A k \in 1..Len(FrontMatterKeys) :
                  StartsAt(lines[k + 1], FrontMatterKeys[k] \o ": ", 1)
           /\ lines[Len(FrontMatterKeys) + 2] = "---"
           /\ lines[Len(FrontMatterKeys) + 3] = ""
           /\ lines[Len(FrontMatterKeys) + 4] = ""
           /\ Ch(list, 1) = "[" /\ Ch(list, Len(list)) = "]"
           /\ HundredthsOf(score) >= 0
           /\ 2 * (HundredthsOf(score) * ScoreUnit - 100 * quality.score) <= ScoreUnit
           /\ 2 * (100 * quality.score - HundredthsOf(score) * ScoreUnit) <= ScoreUnit

(***************************************************************************)
(* The resource provider and its cache, the collaborators that receive the *)
(* processed documents.  They live in resources.ts and cache.ts, outside   *)
(* the content processor: the definitions below follow the specification   *)
(* ("resources are addressed by scheme://platform[/category] or            *)
(* scheme://updates/latest, resolved by an external resource provider      *)
(* against a cache keyed by that address") and the calls that the provider *)
(* tests make.  In this specification the variables hold:                  *)
(*   pc               the statement of getResource that runs next          *)
(*   section          getResource's uri argument                           *)
(*   html             the entries of the cache, by key                     *)
(*   cleanedHtml      the value the last getResource returned              *)
(*   rawMarkdown      discoverSections has run in this call                *)
(*   cleanedMarkdown  fetchSectionContent has run in this call             *)
(*   keywords         history: the value last written under each key since *)
(*                    the cache was last cleared                           *)
(*   relatedSections  history: the value written under the call's address  *)
(*                    at the moment the call began                         *)
(*   quality          the parsed uri                                       *)
(*   frontMatter      the resource that the call has built                 *)
(***************************************************************************)

\* null / undefined: no resource
NoResource ==
    [uri |-> NoValue, name |-> NoValue, description |-> NoValue,
     mimeType |-> NoValue, content |-> NoValue]

\* null: the uri is not an address
NoParsed == [type |-> NoValue, platform |-> NoValue, category |-> NoValue]

\* the addresses that the provider tests ask for
ResourceURIs ==
    {"hig://cached", "hig://ios", "hig://updates/latest", "hig://updates",
     "invalid://uri"}

\* the resource that the test "should use cached resources" writes
CachedResource ==
    [uri |-> "hig://cached", name |-> "Cached Resource",
     description |-> "A cached resource", mimeType |-> "text/markdown",
     content |-> "Cached content"]

\* the values that callers write into the cache
WrittenResources ==
    {CachedResource,
     [uri |-> "hig://ios", name |-> "Stale iOS page",
      description |-> "An earlier copy", mimeType |-> "text/markdown",
      content |-> "Earlier content"]}

\* the keys that callers write, as in cache.set('resource:hig://cached', ...)
CacheKeys == {"resource:" \o uri : uri \in ResourceURIs}

\* a faulty variant of CacheKey: the address itself, without the prefix
CacheKeyBare(uri) == uri

\* the key under which getResource looks an address up
CacheKey(uri) == "resource:" \o uri

\* cache.get(key): the entry, undefined when there is none
CacheGet(store, key) == IF key \in DOMAIN store THEN store[key] ELSE NoResource

\* the platform that each first segment of an address names
PlatformNames == [ios |-> "iOS", macos |-> "macOS"]

\* parseResourceURI(uri): scheme://platform, scheme://platform/category,
\* scheme://updates or scheme://updates/latest; null for anything else
parseResourceURI(uri) ==
    IF ~StartsAt(uri, "hig://", 1) THEN NoParsed
    ELSE LET path == From(uri, Len("hig://") + 1)
             slash == IndexOf(path, "/", 1)
             first == IF slash = 0 THEN path ELSE SubSeq(path, 1, slash - 1)
             rest == IF slash = 0 THEN "" ELSE From(path, slash + 1)
         IN CASE first = "updates" /\ rest \in {"", "latest"} ->
                     [type |-> "updates", platform |-> NoValue, category |-> "latest"]
              [] first \in DOMAIN PlatformNames /\ rest = "" ->
                     [type |-> "platform", platform |-> PlatformNames[first],
                      category |-> NoValue]
              [] first \in DOMAIN PlatformNames /\ rest # "" /\ ~includes(rest, "/") ->
                     [type |-> "category", platform |-> PlatformNames[first],
                      category |-> rest]
              [] OTHER -> NoParsed

\* the name of the resource at a parsed address
ResourceName(parsed) ==
    CASE parsed.type = "updates" -> "Latest HIG Updates"
      [] parsed.type = "platform" -> parsed.platform \o " Human Interface Guidelines"
      [] OTHER -> parsed.platform \o " " \o parsed.category

\* the resource that getResource builds for a parsed address
BuildResource(uri, parsed) ==
    [uri |-> uri, name |-> ResourceName(parsed),
     description |-> ResourceName(parsed), mimeType |-> "text/markdown",
     content |-> "# " \o ResourceName(parsed) \o "\n\nAttribution Notice"]

InitCache ==
    /\ pc = "idle"
    /\ section = NoValue
    /\ html = [k \in CacheKeys |-> NoResource]
    /\ cleanedHtml = NoResource
    /\ rawMarkdown = FALSE
    /\ cleanedMarkdown = FALSE
    /\ keywords = [k \in CacheKeys |-> NoResource]
    /\ relatedSections = NoResource
    /\ quality = NoParsed
    /\ frontMatter = NoResource

\* cache.set(key, value), by a caller between two getResource calls
CacheSet(key, value) ==
    /\ pc = "idle"
    /\ html' = [html EXCEPT ![key] = value]
    /\ keywords' = [keywords EXCEPT ![key] = value]
    /\ UNCHANGED <<pc, section, cleanedHtml, rawMarkdown, cleanedMarkdown,
                   relatedSections, quality, frontMatter>>

\* cache.clear()
CacheClear ==
    /\ pc = "idle"
    /\ html' = [k \in CacheKeys |-> NoResource]
    /\ keywords' = [k \in CacheKeys |-> NoResource]
    /\ UNCHANGED <<pc, section, cleanedHtml, rawMarkdown, cleanedMarkdown,
                   relatedSections, quality, frontMatter>>

\* getResource(uri) is called
GetResourceCall(uri) ==
    /\ pc = "idle"
    /\ pc' = "lookup"
    /\ section' = uri
    /\ cleanedHtml' = NoResource
    /\ rawMarkdown' = FALSE
    /\ cleanedMarkdown' = FALSE
    /\ relatedSections' = keywords["resource:" \o uri]
    /\ quality' = NoParsed
    /\ frontMatter' = NoResource
    /\ UNCHANGED <<html, keywords>>

\* getResource: the cached entry is returned when there is one
Lookup ==
    /\ pc = "lookup"
    /\ LET cached == CacheGet(html, CacheKey(section))
       IN IF cached # NoResource
          THEN pc' = "idle" /\ cleanedHtml' = cached
          ELSE pc' = "parse" /\ UNCHANGED cleanedHtml
    /\ UNCHANGED <<html, section, rawMarkdown, cleanedMarkdown, keywords,
                   relatedSections, quality, frontMatter>>

\* getResource: the address is parsed; null is returned for no address
ParseURI ==
    /\ pc = "parse"
    /\ quality' = parseResourceURI(section)
    /\ CASE quality' = NoParsed -> pc' = "idle" /\ UNCHANGED frontMatter
         [] quality'.type = "updates" ->
                pc' = "store" /\ frontMatter' = BuildResource(section, quality')
         [] OTHER -> pc' = "discover" /\ UNCHANGED frontMatter
    /\ UNCHANGED <<html, section, cleanedHtml, rawMarkdown, cleanedMarkdown,
                   keywords, relatedSections>>

\* getResource: crawleeService.discoverSections()
Discover ==
    /\ pc = "discover"
    /\ rawMarkdown' = TRUE
    /\ pc' = "fetch"
    /\ UNCHANGED <<html, section, cleanedHtml, cleanedMarkdown, keywords,
                   relatedSections, quality, frontMatter>>

\* getResource: crawleeService.fetchSectionContent(), then the resource
Fetch ==
    /\ pc = "fetch"
    /\ cleanedMarkdown' = TRUE
    /\ frontMatter' = BuildResource(section, quality)
    /\ pc' = "store"
    /\ UNCHANGED <<html, section, cleanedHtml, rawMarkdown, keywords,
                   relatedSections, quality>>

\* getResource: the resource is cached under its address and returned
Store ==
    /\ pc = "store"
    /\ html' = [html EXCEPT ![CacheKey(section)] = frontMatter]
    /\ keywords' = [keywords EXCEPT ![CacheKey(section)] = frontMatter]
    /\ cleanedHtml' = frontMatter
    /\ pc' = "idle"
    /\ UNCHANGED <<section, rawMarkdown, cleanedMarkdown, relatedSections,
                   quality, frontMatter>>

NextCache ==
    \/ \E key \in CacheKeys, value \in WrittenResources : CacheSet(key, value)
    \/ CacheClear
    \/ \E uri \in ResourceURIs : GetResourceCall(uri)
    \/ Lookup
    \/ ParseURI
    \/ Discover
    \/ Fetch
    \/ Store

SpecCache == InitCache /\ [][NextCache]_vars

SanitizerPieces ==
    {"<script>track();\nrun();</script>",
     "<style>\n.lead { margin: 0 }\n</style>",
     "<nav>Menu</nav>",
     "<nav>\nContents\n</nav>",
     "<footer>Legal\nnotice</footer>",
     "<header class=\"top\">Masthead</header>",
     "<p>Body text.</p>",
     "<nav>Unclosed ",
     "<script>var open = 1;"}

InitSanitizer ==
    /\ pc = "cleanHtml"
    /\ html \in Concatenations(SanitizerPieces, MaxPieces)
    /\ section = NoSection
    /\ cleanedHtml = NoValue
    /\ rawMarkdown = NoValue
    /\ cleanedMarkdown = NoValue
    /\ keywords = NoList
    /\ relatedSections = NoList
    /\ quality = NoQuality
    /\ frontMatter = NoValue

\* one call cleanHtml(html)
CleanHtmlCall ==
    /\ pc = "cleanHtml"
    /\ cleanedHtml' = cleanHtml(html)
    /\ pc' = "cleaned"
    /\ UNCHANGED <<html, section, rawMarkdown, cleanedMarkdown, keywords,
                   relatedSections, quality, frontMatter>>

SpecSanitizer == InitSanitizer /\ [][CleanHtmlCall]_vars

\* the names of the elements that the sanitizer removes
RemovedElementNames == {"script", "style", "nav", "footer", "header"}

\* the text inside the balanced element named tag whose start tag begins at
\* position i of s: from behind the start tag to the first end tag of that
\* name; NoValue when no such element begins at i
ElementContent(s, tag, i) ==
    LET open == "<" \o tag
        close == "</" \o tag \o ">"
        g == IndexOf(s, ">", i + Len(open))
        c == IF g = 0 THEN 0 ELSE IndexOf(s, close, g + 1)
    IN IF StartsAt(s, open, i) /\ Ch(s, i + Len(open)) \in {">", " "} /\ c # 0
       THEN SubSeq(s, g + 1, c - 1) ELSE NoValue

\* no balanced element of a removed name begins anywhere in s
NoRemovedElement(s) ==
    \A tag \in RemovedElementNames, i \in 1..Len(s) :
        ElementContent(s, tag, i) = NoValue

\* C21: cleanHtml removes every balanced script, style, nav, footer and
\* header element over its full span, also when its content holds line
\* breaks, so that none of the text inside such an element is in the
\* output; a text without a balanced element of these names comes back
\* with its unmatched tags in place (white space collapsed).
C21_RemovedElementsLeaveNoText ==
    pc = "cleaned" =>
        /\ \A tag \in RemovedElementNames, i \in 1..Len(html) :
               LET inner == trim(CollapseWhitespace(ElementContent(html, tag, i)))
               IN ElementContent(html, tag, i) # NoValue /\ inner # ""
                      => ~includes(cleanedHtml, inner)
        /\ NoRemovedElement(html) => cleanedHtml = CollapseWhitespace(html)

\* the texts of the elements of the page s whose class attribute holds
\* "navigation" or "breadcrumb"
NoiseClassedTexts(s) ==
    LET tree == HtmlTree(s)
    IN {trim(TextContent(tree, i, NodeEnd(tree, i))) :
            i \in {k \in 1..Len(tree) : /\ tree[k].kind = "open"
                                        /\ HasRemovedClass(tree[k].className)}}

\* C22: the text of an element whose class attribute holds "navigation" or
\* "breadcrumb" is not in cleanedMarkdown; that cleanHtml strips the class
\* attribute does not keep the converter from dropping the element.
C22_NoiseClassedTextDropped ==
    HasCleanedMarkdown =>
        \A text \in NoiseClassedTexts(html) :
            text # "" => ~includes(cleanedMarkdown, text)

(***************************************************************************)
(* removeRepeatedTitles alone, on texts of heading lines at several        *)
(* levels, in several letter cases, of 20, 21 and more characters, and of  *)
(* lines that are no headings.                                             *)
(***************************************************************************)

TitlePieces ==
    {"# Button\n",
     "## Button\n",
     "#  BUTTON \n",
     "Button\n",
     "## Button styles and sizes\n",
     "# Overview\n## overview\n# Button\n",
     "#overview\n",
     "\n",
     "# Twenty chars long!\n",
     "# Twenty one chars ok\n",
     "Use buttons.\n## Button"}

InitTitles ==
    /\ pc = "removeRepeatedTitles"
    /\ html = NoValue
    /\ section = NoSection
    /\ cleanedHtml = NoValue
    /\ rawMarkdown \in Concatenations(TitlePieces, MaxPieces)
    /\ cleanedMarkdown = NoValue
    /\ keywords = NoList
    /\ relatedSections = NoList
    /\ quality = NoQuality
    /\ frontMatter = NoValue

\* one call removeRepeatedTitles(content), the content kept in rawMarkdown
RemoveRepeatedTitlesCall ==
    /\ pc = "removeRepeatedTitles"
    /\ cleanedMarkdown' = removeRepeatedTitles(rawMarkdown)
    /\ pc' = "filtered"
    /\ UNCHANGED <<html, section, cleanedHtml, rawMarkdown, keywords,
                   relatedSections, quality, frontMatter>>

SpecTitles == InitTitles /\ [][RemoveRepeatedTitlesCall]_vars

\* the title of a heading line without its marks, lower-cased and trimmed
FoldedTitle(line) ==
    trim(toLowerCase(From(line, RunEnd(line, {"#"}, 1) + 1)))

\* line j is a heading line of at most 20 characters whose title stands on
\* an earlier heading line
RepeatedShortTitle(lines, j) ==
    /\ IsTitleLine(lines[j])
    /\ Len(lines[j]) <= 20
    /\ \E i \in 1..(j - 1) :
           IsTitleLine(lines[i]) /\ FoldedTitle(lines[i]) = FoldedTitle(lines[j])

\* C23: removeRepeatedTitles drops exactly the heading lines of at most 20
\* characters whose lower-cased, trimmed title, whatever the level, stands on
\* an earlier heading line (kept or dropped); every other line is kept, in
\* the original order.
C23_RepeatedShortTitlesDropped ==
    pc = "filtered" =>
        LET lines == SplitLines(rawMarkdown, 1)
            out == SplitLines(cleanedMarkdown, 1)
            kept == {j \in 1..Len(lines) : ~RepeatedShortTitle(lines, j)}
            Nth(m) == CHOOSE j \in kept : Cardinality({i \in kept : i <= j}) = m
        IN /\ Len(out) = Cardinality(kept)
           /\ \A m \in 1..Len(out) : out[m] = lines[Nth(m)]

\* a text in which two headings are each repeated at another level, one of
\* them in another letter case, and the repetitions are dropped
C23_Witness ==
    /\ pc = "filtered"
    /\ rawMarkdown = "# Overview\n## overview\n# Button\n## Button\n"
    /\ cleanedMarkdown = "# Overview\n# Button\n"

\* C24: the text returned by cleanMarkdown holds no "skip navigation" in any
\* letter case, also when the phrase is put together by the removal of
\* another occurrence or by a space that a later pass inserts.
C24_NoSkipNavigationLeft ==
    pc = "cleaned" => ~includes(toLowerCase(cleanedMarkdown), "skip navigation")

\* C25: the text returned by cleanMarkdown holds no run of three or more
\* line breaks and neither starts nor ends with white space; the passes
\* behind the white-space normalization bring no such run back.
C25_NoBlankRunsNoOuterSpace ==
    pc = "cleaned" =>
        /\ ~includes(cleanedMarkdown, "\n\n\n")
        /\ cleanedMarkdown = trim(cleanedMarkdown)

\* the text s with its space characters deleted
WithoutSpaces(s) == Build(LAMBDA i : IF Ch(s, i) = " " THEN "" ELSE Ch(s, i), 1, Len(s))

\* the text s is one or two lowercase letters followed by a vocabulary term
\* written in lowercase
ShortPrefixedTerm(s) ==
    \E k \in 1..Len(higTerms), n \in 1..2 :
        /\ From(s, n + 1) = toLowerCase(RemoveSpaces(higTerms[k]))
        /\ \A i \in 1..n : Ch(s, i) \in LowerChars

\* C26: fixWordConcatenation only inserts spaces: its result without the
\* space characters is the input without the space characters, so that no
\* character is removed, replaced or changed in letter case, also where a
\* vocabulary term is matched in another letter case; a term behind a prefix
\* of fewer than 3 characters is left as it is.
C26_OnlySpacesInserted ==
    pc = "fixed" =>
        /\ WithoutSpaces(cleanedMarkdown) = WithoutSpaces(rawMarkdown)
        /\ ShortPrefixedTerm(rawMarkdown) => cleanedMarkdown = rawMarkdown

(***************************************************************************)
(* extractRelatedSections alone, on texts with one or two "see also"       *)
(* labels, with titles on the label's line and on the lines behind it.     *)
(***************************************************************************)

RelatedPieces ==
    {"See also: [Sliders] [Pickers]\n",
     "see also [Layout], [Color] and [Sliders]\n",
     "See also:\n",
     "[Buttons] [Menus]\n",
     "Related: [Icons]\n",
     "Use the system styles.\n",
     "SEE ALSO: [A] [B] [C] [A] [D] [E] [F]",
     "Please see also:  the guide.\n"}

InitRelated ==
    /\ pc = "extractRelatedSections"
    /\ html = NoValue
    /\ section = NoSection
    /\ cleanedHtml = NoValue
    /\ rawMarkdown = NoValue
    /\ cleanedMarkdown \in Concatenations(RelatedPieces, MaxPieces)
    /\ keywords = NoList
    /\ relatedSections = NoList
    /\ quality = NoQuality
    /\ frontMatter = NoValue

\* one call extractRelatedSections(content, section), the content kept in
\* cleanedMarkdown
ExtractRelatedSectionsCall ==
    /\ pc = "extractRelatedSections"
    /\ IF extractRelatedSectionsThrows(cleanedMarkdown)
       THEN pc' = "threw" /\ UNCHANGED relatedSections
       ELSE /\ relatedSections' = extractRelatedSections(cleanedMarkdown)
            /\ pc' = "extracted"
    /\ UNCHANGED <<html, section, cleanedHtml, rawMarkdown, cleanedMarkdown,
                   keywords, quality, frontMatter>>

SpecRelated == InitRelated /\ [][ExtractRelatedSectionsCall]_vars

\* what stands behind the first "see also" label of the text on the label's
\* own line; "" when the text has no such label
BehindFirstLabel(content) ==
    LET i == SeeAlsoStart(toLowerCase(content))
        nl == IndexOf(content, "\n", i + 8)
    IN IF i = 0 THEN ""
       ELSE SubSeq(content, i + 8, IF nl = 0 THEN Len(content) ELSE nl - 1)

\* C27: extractRelatedSections returns the bracketed titles that stand on
\* the line of the first "see also" label, behind the label, in the order
\* of their first appearance and at most 5 of them; titles on the following
\* lines or behind a later label are not returned, and without a label
\* followed by content the result is empty.
C27_TitlesOfTheLabelLineOnly ==
    pc \in {"extracted", "threw"} =>
        /\ pc = "extracted"
        /\ relatedSections
               = Slice(BracketedTitles(BehindFirstLabel(cleanedMarkdown), 1, <<>>),
                       MaxRelatedSections)

\* the term stands in s at position i with no letter or digit on either side
StandaloneAt(s, term, i) ==
    /\ StartsAt(s, term, i)
    /\ Ch(s, i - 1) \notin LetterChars \cup DigitChars
    /\ Ch(s, i + Len(term)) \notin LetterChars \cup DigitChars

\* the terms of higTerms that stand alone somewhere in s
StandaloneTerms(s) ==
    {higTerms[k] : k \in {j \in 1..Len(higTerms) :
                              \E i \in 1..Len(s) : StandaloneAt(s, higTerms[j], i)}}

\* C28: a term of higTerms that stands alone in the text, written as in the
\* list ("iOS", "macOS", "VoiceOver", ...), stands alone and unchanged in the
\* result of fixWordConcatenation: platform names are never split.
C28_StandaloneTermsUnchanged ==
    pc = "fixed" => StandaloneTerms(rawMarkdown) \subseteq StandaloneTerms(cleanedMarkdown)

\* C29: the score is at most 0.67 and the confidence at most 0.77 for every
\* input, so that the clamps at 1 never take effect, and for content that is
\* not fallback content the confidence is exactly the score plus 0.1.
C29_ScoreAndConfidenceCeilings ==
    HasQuality =>
        /\ 100 * quality.score <= 67 * ScoreUnit
        /\ 100 * quality.confidence <= 77 * ScoreUnit
        /\ ~quality.isFallbackContent =>
               quality.confidence = quality.score + ScoreUnit \div 10

\* a text of the weighted-sum branch that reaches both ceilings: 800
\* characters or more, ten headings, ten design terms and a guideline phrase
C29_Witness ==
    /\ HasQuality
    /\ ~quality.isFallbackContent
    /\ quality.length >= PerfectLength
    /\ quality.headingCount >= 10
    /\ quality.appleTermsScore = ScoreUnit
    /\ 100 * quality.score = 67 * ScoreUnit
    /\ 100 * quality.confidence = 77 * ScoreUnit

\* C30: the original text can turn the fallback detection on, never off: a
\* text that detectFallbackContent flags without an original is flagged with
\* every original; and a text with substantial real content, which is
\* decided on the cleaned text alone, is flagged with no original.
C30_OriginalOnlyAddsDetection ==
    HasQuality =>
        /\ detectFallbackContent(cleanedMarkdown, NoValue) => quality.isFallbackContent
        /\ hasSubstantialRealContent(cleanedMarkdown) => ~quality.isFallbackContent

\* a cleaned text that is flagged on its own, assessed with an original
\* text that holds none of the indicators, and flagged
C30_Witness ==
    /\ HasQuality
    /\ rawMarkdown \notin {NoValue, "", cleanedMarkdown}
    /\ ~detectFallbackContent(rawMarkdown, NoValue)
    /\ detectFallbackContent(cleanedMarkdown, NoValue)
    /\ quality.isFallbackContent

====
